---- MODULE Spec2Model ----
(***************************************************************************)
(* Model of the QC screening and failure-interval engine of                *)
(* autogc_validation: qc/blanks.py, qc/recovery.py, qc/utils.py,           *)
(* qc/mdvr.py and qc/screening.py.                                         *)
(*                                                                         *)
(* Conventions                                                             *)
(*  - A compound code is a string naming the CompoundAQSCode member        *)
(*    ("C_BENZENE"); the long-form sentinel is the string "__NONE__", so a *)
(*    flag list is a sequence of strings, as it is a list of codes and     *)
(*    the sentinel in the code.                                            *)
(*  - Concentrations are integers; NaN is the marker for a missing value.  *)
(*    Ratios are compared exactly (cross-multiplied), the thresholds 0.70  *)
(*    and 1.30 being 7/10 and 13/10.                                       *)
(*  - A table's index holds distinct timestamps (one sample per time).     *)
(***************************************************************************)
EXTENDS Integers, Sequences, FiniteSets, TLC

VARIABLES
    screen,         \* which entry point the run exercises
    pc,             \* position of the run: "input", "long", "wide", ...
    data,           \* Dataset.data: a sequence of rows in file order
    mdls,           \* the MDL mapping handed to the blank screen
    canister_conc,  \* the canister concentrations handed to the recovery screen
    blend_ratio,    \* the dilution factor
    qc_type,        \* the sample-type selector of the last recovery call
    long,           \* the long-form table returned by the last screen call
    wide,           \* the wide-form table returned by the last *_wide call
    all_index,      \* mdvr: the index (timestamps) of the full dataset
    failures_wide,  \* mdvr: the wide failure matrix handed to the builders
    series_col,     \* mdvr: the column of the last compute_failure_intervals call
    merged,         \* mdvr: the intervals that call returned
    qual,           \* mdvr: the qualifier table the last builder returned
    upper_cal_point,    \* screening: the upper calibration bound
    exclude_compounds,  \* screening: the names to exclude, or None
    ratios_check,   \* screening: the table check_ratios returned
    exceedances,    \* screening: the table check_overrange_values returned
    daily_max,      \* screening: the series check_daily_max_tnmhc returned
    lookup_call,    \* enums/utils: the last lookup call, [fn, arg]
    lookup_result,  \* enums/utils: what that call returned or raised
    steps,          \* orchestrator: self.steps, name -> dependencies()
    completed_steps,    \* orchestrator: the keys of state["completed_steps"]
    last_call,      \* orchestrator: the last run() or reset() call
    completed_before,   \* orchestrator: completed_steps when that call began
    steps_to_run,   \* orchestrator: the execution order that call computed
    executed,       \* orchestrator: the step.run() invocations of that call
    raised          \* orchestrator: what that call raised

vars == <<screen, pc, data, mdls, canister_conc, blend_ratio, qc_type, long,
          wide, all_index, failures_wide, series_col, merged, qual,
          upper_cal_point, exclude_compounds, ratios_check, exceedances,
          daily_max, lookup_call, lookup_result, steps, completed_steps,
          last_call, completed_before, steps_to_run, executed, raised>>

screenVars == <<data, mdls, canister_conc, blend_ratio, qc_type, long, wide>>
mdvrVars == <<all_index, failures_wide, series_col, merged, qual>>
screeningVars == <<upper_cal_point, exclude_compounds, ratios_check,
                   exceedances, daily_max>>
lookupVars == <<lookup_call, lookup_result>>
pipelineVars == <<steps, completed_steps, last_call, completed_before,
                  steps_to_run, executed, raised>>

----------------------------------------------------------------------------
(* Bounds of the model *)

NumRows == 2

\* mdvr: the timestamps are NumSlots consecutive slots, SlotsPerHour to the
\* hour, the first one LeadHours hours before a midnight.
NumSlots == 4

SlotsPerHour == 2

LeadHours == 1

----------------------------------------------------------------------------
(* Generic helpers *)

SeqToSet(s) == {s[i] : i \in DOMAIN s}

RemoveAt(s, i) == SubSeq(s, 1, i - 1) \o SubSeq(s, i + 1, Len(s))

MinOf(S) == CHOOSE x \in S : \A y \in S : x <= y

MaxOf(S) == CHOOSE x \in S : \A y \in S : x >= y

RECURSIVE SetToSortedSeq(_)
SetToSortedSeq(S) ==
    IF S = {} THEN <<>>
    ELSE LET m == MinOf(S) IN <<m>> \o SetToSortedSeq(S \ {m})

NaN == -1

notna(x) == x # NaN

----------------------------------------------------------------------------
(* database/enums: the code groupings and the name lookup *)

NONE == "__NONE__"

UNID_CODES == {"PLOT_UNID_CODE", "BP_UNID_CODE"}

TOTAL_CODES == {"C_TNMHC", "C_TNMTC"}

\* The CompoundAQSCode members the model carries (those the screens name),
\* each with the value of the CompoundName member of the same name.
CompoundTable ==
    <<<<"C_ETHANE", "Ethane">>, <<"C_ETHYLENE", "Ethylene">>,
      <<"C_PROPANE", "Propane">>, <<"C_PROPYLENE", "Propylene">>,
      <<"C_ISO_BUTANE", "Iso-butane">>, <<"C_N_BUTANE", "N-butane">>,
      <<"C_CYCLOPENTANE", "Cyclopentane">>,
      <<"C_ISO_PENTANE", "Iso-pentane">>, <<"C_N_PENTANE", "N-pentane">>,
      <<"C_2_METHYLPENTANE", "2-methylpentane">>,
      <<"C_3_METHYLPENTANE", "3-methylpentane">>,
      <<"C_METHYLCYCLOPENTANE", "Methylcyclopentane">>,
      <<"C_2_4_DIMETHYLPENTANE", "2,4-dimethylpentane">>,
      <<"C_BENZENE", "Benzene">>,
      <<"C_2_METHYLHEXANE", "2-methylhexane">>,
      <<"C_2_3_DIMETHYLPENTANE", "2,3-dimethylpentane">>,
      <<"C_TOLUENE", "Toluene">>,
      <<"C_M_P_XYLENE", "M&p-xylene">>, <<"C_O_XYLENE", "O-xylene">>,
      <<"C_N_DECANE", "N-decane">>, <<"C_N_UNDECANE", "N-undecane">>,
      <<"C_TNMHC", "TNMHC">>, <<"C_TNMTC", "TNMTC">>>>

CompoundAQSCode == {CompoundTable[i][1] : i \in DOMAIN CompoundTable}

TARGET_CODES == {code \in CompoundAQSCode : code \notin TOTAL_CODES}

CompoundName == {CompoundTable[i][2] : i \in DOMAIN CompoundTable}

\* name_to_aqs giving every name the first member's code.
name_to_aqs_first(name) == CompoundTable[1][1]

\* CompoundAQSCode[CompoundName(name).name].value
name_to_aqs(name) ==
    CompoundTable[CHOOSE i \in DOMAIN CompoundTable : CompoundTable[i][2] = name][1]

\* CompoundName[CompoundAQSCode(code).name].value
aqs_to_name(code) ==
    CompoundTable[CHOOSE i \in DOMAIN CompoundTable : CompoundTable[i][1] = code][2]

\* The call name_to_aqs(name): CompoundName(name) raises ValueError for a
\* value no member has.
call_name_to_aqs(name) ==
    IF name \notin CompoundName THEN [err |-> "ValueError"]
    ELSE [err |-> "ok", value |-> name_to_aqs(name)]

\* The call aqs_to_name(code): CompoundAQSCode(code) raises ValueError for a
\* value no member has.
call_aqs_to_name(code) ==
    IF code \notin CompoundAQSCode THEN [err |-> "ValueError"]
    ELSE [err |-> "ok", value |-> aqs_to_name(code)]

\* VOCCategory
VOCCategory == {"Alkane", "Alkene", "Alkyne", "Aromatic", "Terpene"}

\* VOC_DATA: the entries of the compounds of CompoundTable, in file order.
VOC_DATA ==
    LET v(compound, category) ==
            [compound |-> compound, aqs_code |-> name_to_aqs(compound),
             category |-> category]
    IN <<v("Ethane", "Alkane"), v("Ethylene", "Alkene"),
         v("Propane", "Alkane"), v("Propylene", "Alkene"),
         v("Iso-butane", "Alkane"), v("N-butane", "Alkane"),
         v("Cyclopentane", "Alkane"), v("Iso-pentane", "Alkane"),
         v("N-pentane", "Alkane"), v("2-methylpentane", "Alkane"),
         v("3-methylpentane", "Alkane"), v("Methylcyclopentane", "Alkane"),
         v("2,4-dimethylpentane", "Alkane"), v("Benzene", "Aromatic"),
         v("2-methylhexane", "Alkane"), v("2,3-dimethylpentane", "Alkane"),
         v("Toluene", "Aromatic"), v("M&p-xylene", "Aromatic"),
         v("O-xylene", "Aromatic"), v("N-decane", "Alkane"),
         v("N-undecane", "Alkane")>>

\* get_codes_by_category with the category test left out.
get_codes_by_category_all(category) ==
    [i \in DOMAIN CompoundTable |-> CompoundTable[i][1]]

\* [v["aqs_code"] for v in _VOC_DATA if v["category"] == category.value]
get_codes_by_category(category) ==
    LET sel == SelectSeq(VOC_DATA, LAMBDA v : v.category = category)
    IN [i \in DOMAIN sel |-> sel[i].aqs_code]

alkenes == get_codes_by_category("Alkene")

alkanes == get_codes_by_category("Alkane")

----------------------------------------------------------------------------
(* The tables *)

\* The columns of Dataset.data, in order: two metadata columns (str), then
\* one column per code (int).
Columns == <<"sample_type", "filename", "C_ETHANE", "C_BENZENE", "C_TNMHC",
             "PLOT_UNID_CODE">>

isinstance_int(c) == c \notin {"sample_type", "filename"}

\* sort_index left out: the rows in table order.
sort_index_skipped(rows) == rows

\* DataFrame.sort_index(): the rows in ascending order of the index.
RECURSIVE sort_index(_)
sort_index(rows) ==
    IF rows = <<>> THEN <<>>
    ELSE LET i == CHOOSE i \in DOMAIN rows :
                    \A j \in DOMAIN rows : rows[i].date_time <= rows[j].date_time
         IN <<rows[i]>> \o sort_index(RemoveAt(rows, i))

\* data[data["sample_type"] == t]
FilterType(rows, t) == SelectSeq(rows, LAMBDA r : r.sample_type = t)

----------------------------------------------------------------------------
(* qc/utils.py and qc/recovery.py: the threshold mappings *)

\* The int keys of the model: the codes, and 99999, which is no code.
IntKeys == CompoundAQSCode \cup UNID_CODES \cup {"99999"}

\* A key of a threshold mapping is a str (a compound name, or a string that
\* names no compound) or an int.
isinstance_str(key) == key \notin IntKeys

_safe_name_to_aqs(key) == IF ~isinstance_str(key) THEN key ELSE name_to_aqs(key)

\* to_aqs_indexed_series without the dropna().
to_aqs_indexed_series_keepna(values) ==
    LET index == {_safe_name_to_aqs(k) : k \in DOMAIN values}
    IN [code \in index |->
            values[CHOOSE k \in DOMAIN values : _safe_name_to_aqs(k) = code]]

\* pd.Series(values), the index mapped to codes, NaN values dropped (for a
\* mapping whose str keys are all compound names).
to_aqs_indexed_series(values) ==
    LET kept == {k \in DOMAIN values : notna(values[k])}
        index == {_safe_name_to_aqs(k) : k \in kept}
    IN [code \in index |->
            values[CHOOSE k \in kept : _safe_name_to_aqs(k) = code]]

\* The str keys for which _safe_name_to_aqs raises ValueError.
unknown_names(values) ==
    {k \in DOMAIN values : isinstance_str(k) /\ k \notin CompoundName}

\* The call to_aqs_indexed_series(values): the index is mapped before the
\* NaN values are dropped, so an unknown name raises whatever its value.
call_to_aqs_indexed_series(values) ==
    IF unknown_names(values) # {} THEN [err |-> "ValueError"]
    ELSE [err |-> "ok", series |-> to_aqs_indexed_series(values)]

\* recovery.py carries its own copy of the conversion.
_to_aqs_indexed_series(values) ==
    LET kept == {k \in DOMAIN values : notna(values[k])}
        key(k) == IF isinstance_str(k) THEN name_to_aqs(k) ELSE k
        index == {key(k) : k \in kept}
    IN [code \in index |-> values[CHOOSE k \in kept : key(k) = code]]

----------------------------------------------------------------------------
(* qc/blanks.py *)

\* [c for c in data.columns if isinstance(c, int)
\*    and c not in UNID_CODES | TOTAL_CODES]
compound_columns ==
    SelectSeq(Columns, LAMBDA c : isinstance_int(c)
                                  /\ c \notin (UNID_CODES \cup TOTAL_CODES))

\* above_mdl with the comparison written >= (the boundary flagged).
above_mdl_ge(row, mdl_series) ==
    SelectSeq(compound_columns,
              LAMBDA code : /\ code \in DOMAIN mdl_series
                            /\ notna(row.vals[code])
                            /\ row.vals[code] >= mdl_series[code])

\* The list comprehension of one blank row.
above_mdl(row, mdl_series) ==
    SelectSeq(compound_columns,
              LAMBDA code : /\ code \in DOMAIN mdl_series
                            /\ notna(row.vals[code])
                            /\ row.vals[code] > mdl_series[code])

\* pd.DataFrame(results).set_index("date_time"): an empty list of results
\* gives a frame without a date_time column, and set_index raises KeyError.
set_index(results) ==
    IF results = <<>> THEN [err |-> "KeyError", rows |-> <<>>]
    ELSE [err |-> "ok", rows |-> results]

compounds_above_mdl(d, m) ==
    LET blank_df == sort_index(FilterType(d, "b"))
        mdl_series == to_aqs_indexed_series(m)
        above(row) == above_mdl(row, mdl_series)
        results == [i \in DOMAIN blank_df |->
                      [date_time |-> blank_df[i].date_time,
                       filename |-> blank_df[i].filename,
                       flags |-> IF above(blank_df[i]) = <<>> THEN <<NONE>>
                                 ELSE above(blank_df[i])]]
    IN set_index(results)

\* df.explode(column): one row per element of each row's list; then the
\* "value" column: 1 unless the element is the sentinel.
RECURSIVE explode(_)
explode(rows) ==
    IF rows = <<>> THEN <<>>
    ELSE LET r == Head(rows)
         IN [k \in DOMAIN r.flags |->
                [date_time |-> r.date_time, code |-> r.flags[k],
                 value |-> IF r.flags[k] # NONE THEN 1 ELSE 0]]
            \o explode(Tail(rows))

\* pivot_table that keeps only the timestamps holding a 1 (the rows of
\* clean samples lost).
pivot_table_dropping_clean(exploded) ==
    LET index == {exploded[i].date_time : i \in {j \in DOMAIN exploded :
                                                     exploded[j].value = 1}}
        columns == {exploded[i].code : i \in DOMAIN exploded}
        hits(t, c) == {i \in DOMAIN exploded :
                          exploded[i].date_time = t /\ exploded[i].code = c}
        first(t, c) == IF hits(t, c) = {} THEN 0
                       ELSE exploded[MinOf(hits(t, c))].value
    IN [index |-> index, columns |-> columns,
        cell |-> [t \in index |-> [c \in columns |-> first(t, c)]]]

\* pivot_table(index=date_time, columns=<flag column>, values="value",
\* aggfunc="first", fill_value=0)
pivot_table(exploded) ==
    LET index == {exploded[i].date_time : i \in DOMAIN exploded}
        columns == {exploded[i].code : i \in DOMAIN exploded}
        hits(t, c) == {i \in DOMAIN exploded :
                          exploded[i].date_time = t /\ exploded[i].code = c}
        first(t, c) == IF hits(t, c) = {} THEN 0
                       ELSE exploded[MinOf(hits(t, c))].value
    IN [index |-> index, columns |-> columns,
        cell |-> [t \in index |-> [c \in columns |-> first(t, c)]]]

\* drop_none that leaves the sentinel column in place.
drop_none_skipped(w) == w

\* if "__NONE__" in wide.columns: wide = wide.drop(columns="__NONE__")
drop_none(w) ==
    IF NONE \in w.columns
    THEN [index |-> w.index, columns |-> w.columns \ {NONE},
          cell |-> [t \in w.index |->
                      [c \in w.columns \ {NONE} |-> w.cell[t][c]]]]
    ELSE w

\* The shared body of the two *_wide functions, after the long-form call.
to_wide(df) ==
    IF df.err # "ok"
    THEN [err |-> df.err, index |-> {}, columns |-> {}, cell |-> <<>>]
    ELSE LET w == drop_none(pivot_table(explode(df.rows)))
         IN [err |-> "ok", index |-> w.index, columns |-> w.columns,
             cell |-> w.cell]

compounds_above_mdl_wide(d, m) == to_wide(compounds_above_mdl(d, m))

----------------------------------------------------------------------------
(* qc/recovery.py *)

\* RECOVERY_LOWER_BOUND = 0.70 and RECOVERY_UPPER_BOUND = 1.30 as the
\* fractions LOWER_NUM/BOUND_DEN and UPPER_NUM/BOUND_DEN.
RECOVERY_LOWER_NUM == 7

RECOVERY_UPPER_NUM == 13

RECOVERY_BOUND_DEN == 10

\* recovery_above with the comparison written >= (the boundary flagged).
recovery_above_ge(measured, expected) ==
    IF expected > 0
    THEN RECOVERY_BOUND_DEN * measured >= RECOVERY_UPPER_NUM * expected
    ELSE RECOVERY_BOUND_DEN * measured <= RECOVERY_UPPER_NUM * expected

\* measured / expected > RECOVERY_UPPER_BOUND, for expected # 0
recovery_above(measured, expected) ==
    IF expected > 0
    THEN RECOVERY_BOUND_DEN * measured > RECOVERY_UPPER_NUM * expected
    ELSE RECOVERY_BOUND_DEN * measured < RECOVERY_UPPER_NUM * expected

\* measured / expected < RECOVERY_LOWER_BOUND, for expected # 0
recovery_below(measured, expected) ==
    IF expected > 0
    THEN RECOVERY_BOUND_DEN * measured < RECOVERY_LOWER_NUM * expected
    ELSE RECOVERY_BOUND_DEN * measured > RECOVERY_LOWER_NUM * expected

\* The codes of one row whose condition reaches the division.
divided(row, expected) ==
    {code \in SeqToSet(compound_columns) :
        code \in DOMAIN expected /\ notna(row.vals[code])}

\* failing_qc with a compound absent from the mapping given a default
\* expected value of 1 instead of being skipped.
failing_qc_default(row, expected) ==
    LET exp(code) == IF code \in DOMAIN expected THEN expected[code] ELSE 1
    IN SelectSeq(compound_columns,
                 LAMBDA code : /\ notna(row.vals[code])
                               /\ \/ recovery_above(row.vals[code], exp(code))
                                  \/ recovery_below(row.vals[code], exp(code)))

\* The list comprehension of one QC row (no expected value of it is zero).
failing_qc(row, expected) ==
    SelectSeq(compound_columns,
              LAMBDA code : /\ code \in DOMAIN expected
                            /\ notna(row.vals[code])
                            /\ \/ recovery_above(row.vals[code], expected[code])
                               \/ recovery_below(row.vals[code], expected[code]))

\* valid_qc_type with every selector accepted.
valid_qc_type_any(qt) == TRUE

\* qc_type in ("c", "e", "q")
valid_qc_type(qt) == qt \in {"c", "e", "q"}

\* The row values are Python floats (a row of iterrows() over a frame with
\* str columns has dtype object), so a division by an expected value of 0.0
\* raises ZeroDivisionError.
check_qc_recovery(d, qt, cc, br) ==
    IF ~valid_qc_type(qt) THEN [err |-> "ValueError", rows |-> <<>>]
    ELSE
    LET qc_df == sort_index(FilterType(d, qt))
        series == _to_aqs_indexed_series(cc)
        expected == [code \in DOMAIN series |-> series[code] * br]
        zero_division == \E i \in DOMAIN qc_df :
                            \E code \in divided(qc_df[i], expected) :
                                expected[code] = 0
        failing(row) == failing_qc(row, expected)
        results == [i \in DOMAIN qc_df |->
                      [date_time |-> qc_df[i].date_time,
                       flags |-> IF failing(qc_df[i]) = <<>> THEN <<NONE>>
                                 ELSE failing(qc_df[i])]]
    IN IF zero_division THEN [err |-> "ZeroDivisionError", rows |-> <<>>]
       ELSE set_index(results)

check_qc_recovery_wide(d, qt, cc, br) == to_wide(check_qc_recovery(d, qt, cc, br))

----------------------------------------------------------------------------
(* The screens' inputs *)

\* The measured values the model's tables hold: they sit on and next to the
\* thresholds (an MDL of 13; expected values of 10 and 20, whose bounds are
\* 7..13 and 14..26).
EthaneValues == {13, 14}

BenzeneValues == {NaN, 13, 14}

RowVals == {[C_ETHANE |-> e, C_BENZENE |-> b, C_TNMHC |-> 14,
             PLOT_UNID_CODE |-> 14] : e \in EthaneValues, b \in BenzeneValues}

\* The orders in which the samples' timestamps 1..NumRows sit in the table:
\* oldest first, or newest first.
Orders == {[i \in 1..NumRows |-> i], [i \in 1..NumRows |-> NumRows + 1 - i]}

\* Tables of NumRows rows with sample types among `types`; the filename
\* names the row's position in the table.
Tables(types) ==
    {[i \in 1..NumRows |-> [date_time |-> o[i], sample_type |-> st[i],
                            filename |-> i, vals |-> v[i]]] :
        o \in Orders, st \in [1..NumRows -> types], v \in [1..NumRows -> RowVals]}

\* A mapping given as a set of <<key, value>> pairs with distinct keys.
Mapping(pairs) == [k \in {p[1] : p \in pairs} |->
                      (CHOOSE p \in pairs : p[1] = k)[2]]

\* MDL mappings: Benzene absent, NaN or 13; Ethane absent or 13, keyed by
\* code or by name; the total and the unidentified-peak code at 13.
MdlMappings ==
    {Mapping(b \cup e \cup {<<"C_TNMHC", 13>>, <<"PLOT_UNID_CODE", 13>>}) :
        b \in {{}, {<<"C_BENZENE", NaN>>}, {<<"C_BENZENE", 13>>}},
        e \in {{}, {<<"C_ETHANE", 13>>}, {<<"Ethane", 13>>}}}

\* Canister mappings: Benzene absent, 0 or 10; Ethane 10, keyed by code or
\* by name; the total and the unidentified-peak code at 10.
CanisterMappings ==
    {Mapping(b \cup e \cup {<<"C_TNMHC", 10>>, <<"PLOT_UNID_CODE", 10>>}) :
        b \in {{}, {<<"C_BENZENE", 0>>}, {<<"C_BENZENE", 10>>}},
        e \in {{<<"C_ETHANE", 10>>}, {<<"Ethane", 10>>}}}

BlendRatios == {1, 2}

Selectors == {"c", "e", "q", "z"}

NoTable == [err |-> "unset"]

\* No lookup called, no orchestrator constructed.
NoCall == [op |-> "none"]

InitLookupIdle ==
    /\ lookup_call = NoCall
    /\ lookup_result = NoTable

InitPipelineIdle ==
    /\ steps = <<>>
    /\ completed_steps = {}
    /\ last_call = NoCall
    /\ completed_before = {}
    /\ steps_to_run = <<>>
    /\ executed = <<>>
    /\ raised = [err |-> "none"]

\* The exclude_compounds argument: None, or a set of names.
None == [is_none |-> TRUE, names |-> {}]

Names(S) == [is_none |-> FALSE, names |-> S]

InitScreeningIdle ==
    /\ upper_cal_point = 0
    /\ exclude_compounds = None
    /\ ratios_check = NoTable
    /\ exceedances = NoTable
    /\ daily_max = NoTable

InitMdvrIdle ==
    /\ all_index = {}
    /\ failures_wide = <<>>
    /\ series_col = "none"
    /\ merged = <<>>
    /\ qual = <<>>

InitScreen ==
    /\ pc = "input"
    /\ screen \in {"blank", "recovery"}
    /\ \/ /\ screen = "blank"
          /\ data \in Tables({"b", "s"})
          /\ mdls \in MdlMappings
          /\ canister_conc = <<>>
          /\ blend_ratio = 1
       \/ /\ screen = "recovery"
          /\ data \in Tables({"c", "s"})
          /\ mdls = <<>>
          /\ canister_conc \in CanisterMappings
          /\ blend_ratio \in BlendRatios
    /\ qc_type = "none"
    /\ long = NoTable
    /\ wide = NoTable
    /\ InitMdvrIdle
    /\ InitScreeningIdle
    /\ InitLookupIdle
    /\ InitPipelineIdle

CallCompoundsAboveMdl ==
    /\ screen = "blank" /\ pc = "input"
    /\ long' = compounds_above_mdl(data, mdls)
    /\ pc' = "long"
    /\ UNCHANGED <<screen, data, mdls, canister_conc, blend_ratio, qc_type, wide>>
    /\ UNCHANGED mdvrVars
    /\ UNCHANGED screeningVars
    /\ UNCHANGED lookupVars
    /\ UNCHANGED pipelineVars

CallCompoundsAboveMdlWide ==
    /\ screen = "blank" /\ pc = "long"
    /\ wide' = compounds_above_mdl_wide(data, mdls)
    /\ pc' = "wide"
    /\ UNCHANGED <<screen, data, mdls, canister_conc, blend_ratio, qc_type, long>>
    /\ UNCHANGED mdvrVars
    /\ UNCHANGED screeningVars
    /\ UNCHANGED lookupVars
    /\ UNCHANGED pipelineVars

CallCheckQcRecovery ==
    /\ screen = "recovery" /\ pc = "input"
    /\ \E qt \in Selectors :
          /\ qc_type' = qt
          /\ long' = check_qc_recovery(data, qt, canister_conc, blend_ratio)
    /\ pc' = "long"
    /\ UNCHANGED <<screen, data, mdls, canister_conc, blend_ratio, wide>>
    /\ UNCHANGED mdvrVars
    /\ UNCHANGED screeningVars
    /\ UNCHANGED lookupVars
    /\ UNCHANGED pipelineVars

CallCheckQcRecoveryWide ==
    /\ screen = "recovery" /\ pc = "long"
    /\ wide' = check_qc_recovery_wide(data, qc_type, canister_conc, blend_ratio)
    /\ pc' = "wide"
    /\ UNCHANGED <<screen, data, mdls, canister_conc, blend_ratio, qc_type, long>>
    /\ UNCHANGED mdvrVars
    /\ UNCHANGED screeningVars
    /\ UNCHANGED lookupVars
    /\ UNCHANGED pipelineVars

NextScreen ==
    \/ CallCompoundsAboveMdl
    \/ CallCompoundsAboveMdlWide
    \/ CallCheckQcRecovery
    \/ CallCheckQcRecoveryWide

SpecScreen == InitScreen /\ [][NextScreen]_vars

----------------------------------------------------------------------------
(* Vocabulary of the screens' properties, stated on the inputs and the     *)
(* returned tables only.                                                   *)

\* The table the run's screen reads its thresholds from.
Thresholds == IF screen = "blank" THEN mdls ELSE canister_conc

\* The sample type the run's screen selects.
SelectedType == IF screen = "blank" THEN "b" ELSE qc_type

\* The keys of mapping m that stand for code c.
KeysOf(m, c) == {k \in DOMAIN m : k = c \/ (k \in CompoundName /\ name_to_aqs(k) = c)}

\* Code c has a defined (present, not NaN) entry in mapping m.
Defined(m, c) == \E k \in KeysOf(m, c) : m[k] # NaN

ValueOf(m, c) == m[CHOOSE k \in KeysOf(m, c) : m[k] # NaN]

\* The input rows the run's screen scans.
ScannedRows == {i \in DOMAIN data : data[i].sample_type = SelectedType}

\* The row of table tbl at timestamp t ("none" when there is none).
RowsAt(tbl, t) == {j \in DOMAIN tbl.rows : tbl.rows[j].date_time = t}

Flagged(tbl, t, c) == \E j \in RowsAt(tbl, t) : c \in SeqToSet(tbl.rows[j].flags)

\* The target codes among the table's columns.
TargetColumns == SeqToSet(Columns) \cap TARGET_CODES

\* Code c violates the blank rule in input row r.
BlankViolation(r, c) ==
    /\ Defined(mdls, c)
    /\ r.vals[c] # NaN
    /\ r.vals[c] > ValueOf(mdls, c)

ExpectedOf(c) == ValueOf(canister_conc, c) * blend_ratio

\* Code c violates the recovery rule in input row r: its recovery
\* measured/expected is above 13/10 or below 7/10 (expected > 0).
RecoveryViolation(r, c) ==
    /\ Defined(canister_conc, c)
    /\ ExpectedOf(c) > 0
    /\ r.vals[c] # NaN
    /\ \/ 10 * r.vals[c] > 13 * ExpectedOf(c)
       \/ 10 * r.vals[c] < 7 * ExpectedOf(c)

Violation(r, c) == IF screen = "blank" THEN BlankViolation(r, c)
                   ELSE RecoveryViolation(r, c)

LongReturned == pc \in {"long", "wide"} /\ long.err = "ok"

WideReturned == pc = "wide" /\ wide.err = "ok"

----------------------------------------------------------------------------
\* C4: in compounds_above_mdl, for every blank row and every target compound
\* column with a defined MDL, the compound is in the row's flag list if and
\* only if its value is present and strictly greater than the MDL (a value
\* equal to the MDL and a missing value are never flagged).
C4_FlagIffAboveMdl ==
    (screen = "blank" /\ LongReturned) =>
        \A i \in ScannedRows :
            /\ Cardinality(RowsAt(long, data[i].date_time)) = 1
            /\ \A c \in TargetColumns :
                  Defined(mdls, c) =>
                      (Flagged(long, data[i].date_time, c)
                          <=> (data[i].vals[c] # NaN
                               /\ data[i].vals[c] > ValueOf(mdls, c)))

\* A blank row whose Benzene is missing and whose Ethane equals its MDL, both
\* MDLs defined, next to a blank row with Ethane above the MDL, screened.
C4_Witness ==
    /\ screen = "blank" /\ LongReturned
    /\ Defined(mdls, "C_BENZENE") /\ Defined(mdls, "C_ETHANE")
    /\ \E i, j \in ScannedRows :
          /\ data[i].vals["C_BENZENE"] = NaN
          /\ data[i].vals["C_ETHANE"] = ValueOf(mdls, "C_ETHANE")
          /\ ~Flagged(long, data[i].date_time, "C_ETHANE")
          /\ data[j].vals["C_ETHANE"] > ValueOf(mdls, "C_ETHANE")
          /\ Flagged(long, data[j].date_time, "C_ETHANE")

\* C5: in check_qc_recovery, for every row of the selected QC type and every
\* target compound with a non-zero expected value (canister concentration x
\* blend ratio) and a present measurement, the compound is in the failing
\* list if and only if measured/expected > 1.30 or < 0.70; a recovery of
\* exactly 0.70 or 1.30 is not flagged.
C5_FlagIffOutsideRecovery ==
    (screen = "recovery" /\ LongReturned) =>
        \A i \in ScannedRows :
            /\ Cardinality(RowsAt(long, data[i].date_time)) = 1
            /\ \A c \in TargetColumns :
                  (Defined(canister_conc, c) /\ ExpectedOf(c) # 0
                      /\ data[i].vals[c] # NaN) =>
                      (Flagged(long, data[i].date_time, c)
                          <=> (\/ 10 * data[i].vals[c] > 13 * ExpectedOf(c)
                               \/ 10 * data[i].vals[c] < 7 * ExpectedOf(c)))

\* A QC row with a recovery of exactly 0.70 (14 of 20, not flagged) and one
\* below it (13 of 20, flagged), and a QC row with exactly 1.30 (13 of 10,
\* not flagged) and one above it.
C5_Witness ==
    /\ screen = "recovery" /\ LongReturned
    /\ Defined(canister_conc, "C_BENZENE") /\ ExpectedOf("C_BENZENE") # 0
    /\ \E i \in ScannedRows :
          /\ 10 * data[i].vals["C_BENZENE"] \in
                {7 * ExpectedOf("C_BENZENE"), 13 * ExpectedOf("C_BENZENE")}
          /\ ~Flagged(long, data[i].date_time, "C_BENZENE")
          /\ Flagged(long, data[i].date_time, "C_ETHANE")

\* C8: in the long-form output of both screens a row's flag list is exactly
\* <<"__NONE__">> if and only if the row has zero violations, the sentinel
\* never appears together with a compound code, and the wide-form output
\* never has a "__NONE__" column.
C8_SentinelIffNoViolation ==
    /\ LongReturned =>
          \A i \in ScannedRows : \A j \in RowsAt(long, data[i].date_time) :
              /\ (long.rows[j].flags = <<NONE>>)
                    <=> (\A c \in TargetColumns : ~Violation(data[i], c))
              /\ NONE \in SeqToSet(long.rows[j].flags)
                    => long.rows[j].flags = <<NONE>>
              /\ long.rows[j].flags # <<>>
    /\ WideReturned => NONE \notin wide.columns

\* A wide table built from a long table that holds a clean row (the
\* sentinel) and a row with a violation.
C8_Witness ==
    /\ WideReturned
    /\ \E j, k \in DOMAIN long.rows :
          /\ long.rows[j].flags = <<NONE>>
          /\ NONE \notin SeqToSet(long.rows[k].flags)

\* C9: the wide-form matrix agrees with the long-form table: one row for
\* every screened timestamp (clean rows kept, 0 in every column), every cell
\* 0 or 1, and wide[t][c] = 1 if and only if c is in the flag list of t.
C9_WideAgreesWithLong ==
    WideReturned =>
        /\ wide.index = {long.rows[j].date_time : j \in DOMAIN long.rows}
        /\ wide.index = {data[i].date_time : i \in ScannedRows}
        /\ \A t \in wide.index :
              /\ \A c \in wide.columns :
                    /\ wide.cell[t][c] \in {0, 1}
                    /\ wide.cell[t][c] = 1 <=> Flagged(long, t, c)
              /\ \A c \in TargetColumns : Flagged(long, t, c) => c \in wide.columns

\* A wide table with a clean row (0 in every column) and a row holding a 1.
C9_Witness ==
    /\ WideReturned
    /\ \E t, u \in wide.index :
          /\ Flagged(long, t, NONE)
          /\ \E c \in wide.columns : wide.cell[t][c] = 0 /\ wide.cell[u][c] = 1

\* C22: compounds_above_mdl returns exactly one row per blank row of the
\* input and none for a row of another type, in ascending timestamp order,
\* each carrying the filename of its input row.
C22_OneRowPerBlankSorted ==
    (screen = "blank" /\ LongReturned) =>
        /\ Len(long.rows) = Cardinality(ScannedRows)
        /\ \A j, k \in DOMAIN long.rows :
              j < k => long.rows[j].date_time < long.rows[k].date_time
        /\ \A j \in DOMAIN long.rows :
              \E i \in ScannedRows :
                  /\ long.rows[j].date_time = data[i].date_time
                  /\ long.rows[j].filename = data[i].filename
        /\ \A i \in DOMAIN data :
              data[i].sample_type # "b" => RowsAt(long, data[i].date_time) = {}

\* Two blank rows given newest first come out oldest first.
C22_Witness ==
    /\ screen = "blank" /\ LongReturned
    /\ \E i, j \in ScannedRows :
          /\ i < j
          /\ data[i].date_time > data[j].date_time
          /\ long.rows[1].filename = data[j].filename
          /\ long.rows[2].filename = data[i].filename

\* Mapping m without key k.
Without(m, k) == [x \in DOMAIN m \ {k} |-> m[x]]

\* The screen of the run, called again with another threshold mapping.
ScreenWith(m) ==
    IF screen = "blank" THEN compounds_above_mdl(data, m)
    ELSE check_qc_recovery(data, qc_type, m, blend_ratio)

CodeOfKey(k) == IF k \in CompoundName THEN name_to_aqs(k) ELSE k

\* C10: removing a compound's entry from the MDL mapping or from the
\* canister-concentration mapping never causes that compound to be flagged
\* and never causes an error: the call without the entry fails only as the
\* call with it does, the compound is absent from every row's flag list,
\* and every other compound is flagged exactly as before.
C10_RemovedEntryNeverFlags ==
    (pc \in {"long", "wide"} /\ long.err # "ValueError") =>
        \A k \in DOMAIN Thresholds :
            LET without == ScreenWith(Without(Thresholds, k))
            IN /\ long.err = "ok" => without.err = "ok"
               /\ without.err # "ok" => without.err = long.err
               /\ without.err = "ok" =>
                     \A j \in DOMAIN without.rows :
                        /\ CodeOfKey(k) \notin SeqToSet(without.rows[j].flags)
                        /\ long.err = "ok" =>
                              \A c \in TargetColumns \ {CodeOfKey(k)} :
                                  Flagged(without, without.rows[j].date_time, c)
                                     <=> Flagged(long, without.rows[j].date_time, c)

\* A returned long table that flags Ethane and Benzene, from a mapping that
\* holds entries for both.
C10_Witness ==
    /\ LongReturned
    /\ KeysOf(Thresholds, "C_ETHANE") # {} /\ KeysOf(Thresholds, "C_BENZENE") # {}
    /\ \E j \in DOMAIN long.rows :
          {"C_ETHANE", "C_BENZENE"} \subseteq SeqToSet(long.rows[j].flags)

\* C11: the blank screen and the recovery screen evaluate the total codes
\* too: a scanned row whose TNMHC value is present and violates the screen's
\* rule (above its defined MDL; recovery outside [0.70, 1.30]) has the total
\* code in its flag list.
C11_TotalsEvaluated ==
    LongReturned =>
        \A i \in ScannedRows :
            \A c \in SeqToSet(Columns) \cap TOTAL_CODES :
                Violation(data[i], c) => Flagged(long, data[i].date_time, c)

\* C12: in check_qc_recovery a compound whose expected value is zero is
\* skipped: the call does not raise a division error and the compound is in
\* no row's failing list.
C12_ZeroExpectedSkipped ==
    (screen = "recovery" /\ pc \in {"long", "wide"} /\ qc_type \in {"c", "e", "q"}) =>
        \A c \in TargetColumns :
            (Defined(canister_conc, c) /\ ExpectedOf(c) = 0) =>
                /\ long.err # "ZeroDivisionError"
                /\ long.err = "ok" =>
                      \A j \in DOMAIN long.rows :
                          c \notin SeqToSet(long.rows[j].flags)

\* C13: check_qc_recovery raises ValueError exactly for the selectors other
\* than "c", "e" and "q", whatever the table and the mapping hold (no row is
\* scanned first), and returns no table then.
C13_ValueErrorIffUnknownSelector ==
    (screen = "recovery" /\ pc \in {"long", "wide"}) =>
        /\ long.err = "ValueError" <=> qc_type \notin {"c", "e", "q"}
        /\ long.err = "ValueError" => long.rows = <<>>

\* A call with an unknown selector on a table and a mapping whose scan under
\* a recognized selector raises (a zero expected value under a present
\* measurement): ValueError comes first.
C13_Witness ==
    /\ screen = "recovery" /\ pc = "long"
    /\ long.err = "ValueError"
    /\ check_qc_recovery(data, "c", canister_conc, blend_ratio).err
          = "ZeroDivisionError"

\* C14: with no blank row in the table compounds_above_mdl returns an empty
\* table; it does not raise.
C14_NoBlankRowsEmptyTable ==
    (screen = "blank" /\ pc \in {"long", "wide"} /\ ScannedRows = {}) =>
        /\ long.err = "ok"
        /\ long.rows = <<>>

----------------------------------------------------------------------------
(* qc/mdvr.py: compute_failure_intervals *)

NaT == -1

\* Series.ffill(): each position takes the last value that is not NaT at or
\* before it.
ffill(s) ==
    [i \in DOMAIN s |->
        LET known == {j \in 1..i : s[j] # NaT}
        IN IF known = {} THEN NaT ELSE s[MaxOf(known)]]

\* Series.bfill(): each position takes the first value that is not NaT at or
\* after it.
bfill(s) ==
    [i \in DOMAIN s |->
        LET known == {j \in i..Len(s) : s[j] # NaT}
        IN IF known = {} THEN NaT ELSE s[MinOf(known)]]

fillna(s, value) == [i \in DOMAIN s |-> IF s[i] = NaT THEN value ELSE s[i]]

\* intervals[np.argsort(intervals[:, 0])]: the rows in ascending order of the
\* left bound (rows with equal left bounds are equal rows here).
RECURSIVE argsort_rows(_)
argsort_rows(intervals) ==
    IF intervals = <<>> THEN <<>>
    ELSE LET i == CHOOSE i \in DOMAIN intervals :
                    /\ \A j \in DOMAIN intervals : intervals[i][1] <= intervals[j][1]
                    /\ \A j \in 1..(i - 1) : intervals[j][1] # intervals[i][1]
         IN <<intervals[i]>> \o argsort_rows(RemoveAt(intervals, i))

\* new_interval_mask comparing each left bound with the maximum of all the
\* right bounds instead of the running maximum of the earlier ones.
new_interval_mask_total(intervals) ==
    [i \in DOMAIN intervals |->
        \/ i = 1
        \/ intervals[i][1] > MaxOf({intervals[j][2] : j \in DOMAIN intervals})]

\* np.r_[True, lb[1:] > np.maximum.accumulate(rb[:-1])]
new_interval_mask(intervals) ==
    [i \in DOMAIN intervals |->
        \/ i = 1
        \/ intervals[i][1] > MaxOf({intervals[j][2] : j \in 1..(i - 1)})]

\* merge_intervals that returns the sorted intervals as they are.
merge_intervals_skipped(intervals) == intervals

\* The merge of the sorted intervals: the groups the mask opens, each
\* reduced to <<min of its left bounds, max of its right bounds>>
\* (np.minimum.reduceat, np.maximum.reduceat over np.flatnonzero(mask)).
merge_intervals(intervals) ==
    LET mask == new_interval_mask(intervals)
        starts == SetToSortedSeq({i \in DOMAIN intervals : mask[i]})
        stop(g) == IF g = Len(starts) THEN Len(intervals) ELSE starts[g + 1] - 1
    IN [g \in DOMAIN starts |->
          <<MinOf({intervals[i][1] : i \in starts[g]..stop(g)}),
            MaxOf({intervals[i][2] : i \in starts[g]..stop(g)})>>]

\* lower_bound_of taking the minimum of the series' own index.
lower_bound_of_series(all_data_index, failure_series) ==
    IF DOMAIN failure_series = {} THEN NaT ELSE MinOf(DOMAIN failure_series)

\* all_data.index.min(): the full dataset's bound, not the series'.
lower_bound_of(all_data_index, failure_series) ==
    IF all_data_index = {} THEN NaT ELSE MinOf(all_data_index)

upper_bound_of(all_data_index, failure_series) ==
    IF all_data_index = {} THEN NaT ELSE MaxOf(all_data_index)

\* failure_series: a function from the timestamps of its index to 0 or 1.
compute_failure_intervals(all_data_index, failure_series) ==
    LET idx == SetToSortedSeq(DOMAIN failure_series)
        lower_bound == lower_bound_of(all_data_index, failure_series)
        upper_bound == upper_bound_of(all_data_index, failure_series)
        passes == [i \in DOMAIN idx |-> failure_series[idx[i]] = 0]
        fails == [i \in DOMAIN idx |-> failure_series[idx[i]] = 1]
        pass_idx == [i \in DOMAIN idx |-> IF passes[i] THEN idx[i] ELSE NaT]
        left_bounds == fillna(ffill(pass_idx), lower_bound)
        right_bounds == fillna(bfill(pass_idx), upper_bound)
        failing == SetToSortedSeq({i \in DOMAIN idx : fails[i]})
        intervals == [k \in DOMAIN failing |->
                        <<left_bounds[failing[k]], right_bounds[failing[k]]>>]
    IN IF failing = <<>> THEN <<>>
       ELSE merge_intervals(argsort_rows(intervals))

----------------------------------------------------------------------------
(* qc/mdvr.py: the qualifier builders *)

HoursPerDay == 24

SlotsPerDay == HoursPerDay * SlotsPerHour

\* strftime("%m/%d/%Y"): the calendar day of a timestamp (a day number).
strftime_date(t) == t \div SlotsPerDay

\* strftime("%H:00"): the hour of the day, the minutes dropped.
strftime_hour(t) == (t \div SlotsPerHour) % HoursPerDay

\* pd.to_datetime(date + " " + hour, format="%m/%d/%Y %H:%M")
to_datetime(date, hour) == (date * HoursPerDay + hour) * SlotsPerHour

\* pd.Timedelta(hours=1)
Timedelta_hour == SlotsPerHour

QC_TYPE_NAMES == [c |-> "CVS", e |-> "LCS", q |-> "RTS"]

BlankReason == "Blank(s) above respective MDL(s)"

QcReason(qc_name) == <<qc_name, "recovery outside acceptable bounds">>

\* rows.append({...}) for every interval of every column, in column order.
RECURSIVE qualifier_rows(_, _, _, _, _)
qualifier_rows(all_data_index, failures, columns, reason, code) ==
    IF columns = <<>> THEN <<>>
    ELSE LET compound_code == Head(columns)
             intervals == compute_failure_intervals(all_data_index,
                                                    failures[compound_code])
         IN [k \in DOMAIN intervals |->
                [Parameters |-> aqs_to_name(compound_code),
                 REASON |-> reason,
                 CODE |-> code,
                 startdate |-> strftime_date(intervals[k][1]),
                 starthour |-> strftime_hour(intervals[k][1]),
                 dash |-> "-",
                 enddate |-> strftime_date(intervals[k][2]),
                 endhour |-> strftime_hour(intervals[k][2]),
                 Justification |-> reason]]
            \o qualifier_rows(all_data_index, failures, Tail(columns), reason, code)

\* The key df.groupby([...]) groups the rows by.
group_key(row) == <<row.startdate, row.starthour, row.enddate, row.endhour>>

\* The lexicographic order of two keys.
key_less(a, b) ==
    \E n \in 1..Len(a) : a[n] < b[n] /\ \A m \in 1..(n - 1) : a[m] = b[m]

RECURSIVE sort_keys(_)
sort_keys(keys) ==
    IF keys = {} THEN <<>>
    ELSE LET k == CHOOSE k \in keys : \A o \in keys \ {k} : key_less(k, o)
         IN <<k>> \o sort_keys(keys \ {k})

\* _shift_and_combine without the groupby: every row shifted on its own.
_shift_without_combine(df) ==
    [i \in DOMAIN df |->
        LET start_dt == to_datetime(df[i].startdate, df[i].starthour) + Timedelta_hour
            end_dt == to_datetime(df[i].enddate, df[i].endhour) - Timedelta_hour
        IN [Parameters |-> <<df[i].Parameters>>,
            REASON |-> df[i].REASON,
            CODE |-> df[i].CODE,
            startdate |-> strftime_date(start_dt),
            starthour |-> strftime_hour(start_dt),
            dash |-> df[i].dash,
            enddate |-> strftime_date(end_dt),
            endhour |-> strftime_hour(end_dt),
            Justification |-> df[i].Justification]]

\* _shift_and_combine: one row per group key, the parameters of the group
\* joined in row order (the sequence stands for the ", "-joined string), the
\* other columns taken from the group's first row; then the group's bounds
\* parsed, shifted by one hour inwards and formatted again.
_shift_and_combine(df) ==
    LET keys == sort_keys({group_key(df[i]) : i \in DOMAIN df})
        members(key) == SelectSeq(df, LAMBDA row : group_key(row) = key)
        combined(key) ==
            LET grp == members(key)
                start_dt == to_datetime(key[1], key[2]) + Timedelta_hour
                end_dt == to_datetime(key[3], key[4]) - Timedelta_hour
            IN [Parameters |-> [i \in DOMAIN grp |-> grp[i].Parameters],
                REASON |-> grp[1].REASON,
                CODE |-> grp[1].CODE,
                startdate |-> strftime_date(start_dt),
                starthour |-> strftime_hour(start_dt),
                dash |-> grp[1].dash,
                enddate |-> strftime_date(end_dt),
                endhour |-> strftime_hour(end_dt),
                Justification |-> grp[1].Justification]
    IN [g \in DOMAIN keys |-> combined(keys[g])]

\* if not rows: return pd.DataFrame(columns=_MDVR_COLUMNS)
build_qualifier_lines(rows) ==
    IF rows = <<>> THEN <<>> ELSE _shift_and_combine(rows)

build_blank_qualifier_lines(all_data_index, blank_failures_wide, columns) ==
    build_qualifier_lines(
        qualifier_rows(all_data_index, blank_failures_wide, columns,
                       BlankReason, "LB"))

build_qc_qualifier_lines(all_data_index, qc_failures_wide, columns, qt) ==
    build_qualifier_lines(
        qualifier_rows(all_data_index, qc_failures_wide, columns,
                       QcReason(QC_TYPE_NAMES[qt]), "QX"))

----------------------------------------------------------------------------
(* The builders' inputs *)

FirstSlot == (HoursPerDay - LeadHours) * SlotsPerHour

Slots == FirstSlot..(FirstSlot + NumSlots - 1)

\* The columns of the wide failure matrix.
WideColumns == <<"C_ETHANE", "C_BENZENE">>

\* The wide matrices over the timestamps of index: column -> timestamp -> 0/1.
WideMatrices(index) ==
    [SeqToSet(WideColumns) -> [index -> {0, 1}]]

InitScreenIdle ==
    /\ data = <<>>
    /\ mdls = <<>>
    /\ canister_conc = <<>>
    /\ blend_ratio = 1
    /\ qc_type = "none"
    /\ long = NoTable
    /\ wide = NoTable

\* The dataset's timestamps are any of the slots; the failure matrix holds
\* the screened samples, a subset of them.
InitMdvr ==
    /\ pc = "input"
    /\ screen = "mdvr"
    /\ all_index \in SUBSET Slots
    /\ \E index \in SUBSET all_index : failures_wide \in WideMatrices(index)
    /\ series_col = "none"
    /\ merged = <<>>
    /\ qual = <<>>
    /\ InitScreenIdle
    /\ InitScreeningIdle
    /\ InitLookupIdle
    /\ InitPipelineIdle

CallComputeFailureIntervals ==
    /\ screen = "mdvr" /\ pc = "input"
    /\ \E c \in SeqToSet(WideColumns) :
          /\ series_col' = c
          /\ merged' = compute_failure_intervals(all_index, failures_wide[c])
    /\ pc' = "intervals"
    /\ UNCHANGED <<screen, all_index, failures_wide, qual>>
    /\ UNCHANGED screenVars
    /\ UNCHANGED screeningVars
    /\ UNCHANGED lookupVars
    /\ UNCHANGED pipelineVars

CallBuildBlankQualifierLines ==
    /\ screen = "mdvr" /\ pc = "input"
    /\ qual' = build_blank_qualifier_lines(all_index, failures_wide, WideColumns)
    /\ pc' = "qual"
    /\ UNCHANGED <<screen, all_index, failures_wide, series_col, merged>>
    /\ UNCHANGED screenVars
    /\ UNCHANGED screeningVars
    /\ UNCHANGED lookupVars
    /\ UNCHANGED pipelineVars

CallBuildQcQualifierLines ==
    /\ screen = "mdvr" /\ pc = "input"
    /\ \E qt \in DOMAIN QC_TYPE_NAMES :
          qual' = build_qc_qualifier_lines(all_index, failures_wide, WideColumns, qt)
    /\ pc' = "qual"
    /\ UNCHANGED <<screen, all_index, failures_wide, series_col, merged>>
    /\ UNCHANGED screenVars
    /\ UNCHANGED screeningVars
    /\ UNCHANGED lookupVars
    /\ UNCHANGED pipelineVars

NextMdvr ==
    \/ CallComputeFailureIntervals
    \/ CallBuildBlankQualifierLines
    \/ CallBuildQcQualifierLines

SpecMdvr == InitMdvr /\ [][NextMdvr]_vars

----------------------------------------------------------------------------
(* Vocabulary of the interval and qualifier properties *)

\* The series of column c of the failure matrix, its failing and its
\* passing timestamps.
SeriesOf(c) == failures_wide[c]

FailTimes(c) == {t \in DOMAIN SeriesOf(c) : SeriesOf(c)[t] = 1}

PassTimes(c) == {t \in DOMAIN SeriesOf(c) : SeriesOf(c)[t] = 0}

GlobalMin == IF all_index = {} THEN NaT ELSE MinOf(all_index)

GlobalMax == IF all_index = {} THEN NaT ELSE MaxOf(all_index)

\* The bounds the contract gives failing timestamp t of column c.
LeftBound(c, t) ==
    LET before == {p \in PassTimes(c) : p < t}
    IN IF before = {} THEN GlobalMin ELSE MaxOf(before)

RightBound(c, t) ==
    LET after == {p \in PassTimes(c) : p > t}
    IN IF after = {} THEN GlobalMax ELSE MinOf(after)

IntervalsReturned == screen = "mdvr" /\ pc = "intervals"

\* The returned intervals that hold timestamp t.
Holding(t) == {i \in DOMAIN merged : merged[i][1] <= t /\ t <= merged[i][2]}

\* C1: the intervals compute_failure_intervals returns are sorted by start
\* time and pairwise non-overlapping, and every failing timestamp of the
\* series lies within exactly one of them.
C1_SortedDisjointCovering ==
    IntervalsReturned =>
        /\ \A i, j \in DOMAIN merged :
              i < j => /\ merged[i][1] <= merged[j][1]
                       /\ merged[i][2] < merged[j][1]
        /\ \A t \in FailTimes(series_col) : Cardinality(Holding(t)) = 1

\* Two intervals returned, a failing timestamp in each.
C1_Witness ==
    /\ IntervalsReturned
    /\ Len(merged) >= 2
    /\ \E t, u \in FailTimes(series_col) : Holding(t) # Holding(u)

\* C2: the interval returned for a failing timestamp t starts at or before
\* t's left bound (the last pass before t, else the minimum timestamp of the
\* full dataset) and ends at or after its right bound (the next pass after
\* t, else the full dataset's maximum), and every returned start and end is
\* a passing timestamp of the series or one of the two global bounds.
C2_BoundsArePassesOrGlobal ==
    IntervalsReturned =>
        /\ \A t \in FailTimes(series_col) : \E i \in Holding(t) :
              /\ merged[i][1] <= LeftBound(series_col, t)
              /\ merged[i][2] >= RightBound(series_col, t)
        /\ \A i \in DOMAIN merged :
              /\ \E t \in FailTimes(series_col) :
                    merged[i][1] = LeftBound(series_col, t)
              /\ \E t \in FailTimes(series_col) :
                    merged[i][2] = RightBound(series_col, t)
              /\ merged[i][1] \in PassTimes(series_col) \cup {GlobalMin}
              /\ merged[i][2] \in PassTimes(series_col) \cup {GlobalMax}

\* An interval that starts at the dataset's minimum, which is no timestamp
\* of the series, and ends at a pass of the series.
C2_Witness ==
    /\ IntervalsReturned
    /\ GlobalMin \notin DOMAIN SeriesOf(series_col)
    /\ \E i \in DOMAIN merged :
          /\ merged[i][1] = GlobalMin
          /\ merged[i][2] \in PassTimes(series_col)

\* C3: no passing timestamp of the series lies strictly between the start
\* and the end of a returned interval.
C3_NoPassInside ==
    IntervalsReturned =>
        \A i \in DOMAIN merged : \A p \in PassTimes(series_col) :
            ~(merged[i][1] < p /\ p < merged[i][2])

\* The timestamps of the series right before and right after t.
Neighbours(c, t) ==
    LET before == {u \in DOMAIN SeriesOf(c) : u < t}
        after == {u \in DOMAIN SeriesOf(c) : u > t}
    IN (IF before = {} THEN {} ELSE {MaxOf(before)})
       \cup (IF after = {} THEN {} ELSE {MinOf(after)})

\* C3 as amended: a passing timestamp that lies strictly between the start
\* and the end of a returned interval is a single pass between two failing
\* timestamps (its neighbours in the series on both sides fail): spans that
\* touch at one pass are returned as one interval, and no interval holds two
\* successive passes.
C3_OnlyIsolatedPassInside ==
    IntervalsReturned =>
        \A i \in DOMAIN merged : \A p \in PassTimes(series_col) :
            (merged[i][1] < p /\ p < merged[i][2]) =>
                /\ Cardinality(Neighbours(series_col, p)) = 2
                /\ Neighbours(series_col, p) \subseteq FailTimes(series_col)

\* An interval with a pass strictly inside it.
C3_Witness ==
    /\ IntervalsReturned
    /\ \E i \in DOMAIN merged : \E p \in PassTimes(series_col) :
          merged[i][1] < p /\ p < merged[i][2]

QualReturned == screen = "mdvr" /\ pc = "qual"

IntervalsOf(c) == compute_failure_intervals(all_index, SeriesOf(c))

Reported(row) == <<row.startdate, row.starthour, row.enddate, row.endhour>>

\* The window [start + 1 hour, end - 1 hour] as dates and hours.
InnerWindow(start, end) ==
    <<strftime_date(start + SlotsPerHour), strftime_hour(start + SlotsPerHour),
      strftime_date(end - SlotsPerHour), strftime_hour(end - SlotsPerHour)>>

HourAligned(t) == t % SlotsPerHour = 0

\* C6: for hour-aligned timestamps every qualifier row reports the window
\* [interval start + 1 hour, interval end - 1 hour] of a failure interval,
\* and that window holds every failing timestamp of the interval, also when
\* the interval is bounded by the dataset's minimum or maximum.
C6_WindowHoldsFailingHours ==
    (QualReturned /\ \A t \in all_index : HourAligned(t)) =>
        /\ \A r \in DOMAIN qual : \E c \in SeqToSet(WideColumns) :
              \E k \in DOMAIN IntervalsOf(c) :
                 Reported(qual[r]) = InnerWindow(IntervalsOf(c)[k][1],
                                                 IntervalsOf(c)[k][2])
        /\ \A c \in SeqToSet(WideColumns) : \A k \in DOMAIN IntervalsOf(c) :
              \A t \in FailTimes(c) :
                 (IntervalsOf(c)[k][1] <= t /\ t <= IntervalsOf(c)[k][2]) =>
                     /\ IntervalsOf(c)[k][1] + SlotsPerHour <= t
                     /\ t <= IntervalsOf(c)[k][2] - SlotsPerHour

\* The (start date, start hour, end date, end hour) of an interval.
WindowOf(iv) == <<strftime_date(iv[1]), strftime_hour(iv[1]),
                  strftime_date(iv[2]), strftime_hour(iv[2])>>

\* The windows of all the per-compound failure intervals.
AllWindows == UNION {{WindowOf(IntervalsOf(c)[k]) : k \in DOMAIN IntervalsOf(c)} :
                        c \in SeqToSet(WideColumns)}

\* The compounds that have a failure interval with window w.
CompoundsWith(w) ==
    {c \in SeqToSet(WideColumns) :
        \E k \in DOMAIN IntervalsOf(c) : WindowOf(IntervalsOf(c)[k]) = w}

\* The window a row reports for the intervals of window w.
ShiftedWindow(w) ==
    <<strftime_date(to_datetime(w[1], w[2]) + SlotsPerHour),
      strftime_hour(to_datetime(w[1], w[2]) + SlotsPerHour),
      strftime_date(to_datetime(w[3], w[4]) - SlotsPerHour),
      strftime_hour(to_datetime(w[3], w[4]) - SlotsPerHour)>>

----------------------------------------------------------------------------
(* qc/screening.py *)

\* The columns of Dataset.data: the metadata columns, then one column per
\* CompoundAQSCode member (no unidentified-peak code).
DatasetColumns ==
    <<"sample_type", "filename">>
        \o [i \in DOMAIN CompoundTable |-> CompoundTable[i][1]]

\* [c for c in ambient_df.columns if isinstance(c, int)]; the columns hold
\* floats, which pd.to_numeric leaves as they are.
compound_cols == SelectSeq(DatasetColumns, isinstance_int)

\* x > y on floats: False when either side is NaN.
gt(x, y) == notna(x) /\ notna(y) /\ x > y

\* a[codes].sum(axis=1) of one row: the sum of the present values.
RECURSIVE row_sum(_, _)
row_sum(row, codes) ==
    IF codes = <<>> THEN 0
    ELSE (IF notna(row.vals[Head(codes)]) THEN row.vals[Head(codes)] ELSE 0)
            + row_sum(row, Tail(codes))

\* The codes whose MDL the conditions look up: m[C.C_...].
mdl_lookups ==
    {"C_BENZENE", "C_ETHYLENE", "C_PROPYLENE", "C_O_XYLENE",
     "C_2_3_DIMETHYLPENTANE", "C_2_4_DIMETHYLPENTANE", "C_ISO_BUTANE",
     "C_3_METHYLPENTANE", "C_N_UNDECANE", "C_ISO_PENTANE", "C_N_PENTANE",
     "C_CYCLOPENTANE"}

\* x / p > y / q, compared exactly: x * q > y * p.
gt_scaled(x, p, y, q) == notna(x) /\ notna(y) /\ x * q > y * p

\* above_3x_mdl with the comparison written >= (3 times the MDL passes).
above_3x_mdl_ge(x, m, code) == notna(x) /\ x >= 3 * m[code]

\* x > 3 * m[code]
above_3x_mdl(x, m, code) == gt(x, 3 * m[code])

\* The conditions list, evaluated on one row: (mask, label, compounds).
conditions(row, m) ==
    LET a == row.vals
        entry(cond, label, compounds) ==
            [cond |-> cond, label |-> label, compounds |-> compounds]
    IN <<entry(gt_scaled(a["C_BENZENE"], 6, a["C_TOLUENE"], 7)
                 /\ above_3x_mdl(a["C_BENZENE"], m, "C_BENZENE"),
               "benzene_gt_toluene", <<"C_BENZENE", "C_TOLUENE">>),
         entry(gt_scaled(a["C_BENZENE"], 6, a["C_ETHANE"], 2)
                 /\ above_3x_mdl(a["C_BENZENE"], m, "C_BENZENE"),
               "benzene_gt_ethane", <<"C_BENZENE", "C_ETHANE">>),
         entry(gt_scaled(a["C_ETHYLENE"], 2, a["C_ETHANE"], 2)
                 /\ above_3x_mdl(a["C_ETHYLENE"], m, "C_ETHYLENE"),
               "ethylene_gt_ethane", <<"C_ETHYLENE", "C_ETHANE">>),
         entry(gt_scaled(a["C_PROPYLENE"], 3, a["C_PROPANE"], 3)
                 /\ above_3x_mdl(a["C_PROPYLENE"], m, "C_PROPYLENE"),
               "propylene_gt_propane", <<"C_PROPYLENE", "C_PROPANE">>),
         entry(gt_scaled(a["C_O_XYLENE"], 8, a["C_M_P_XYLENE"], 8)
                 /\ above_3x_mdl(a["C_O_XYLENE"], m, "C_O_XYLENE"),
               "oxylene_gt_mpxylene", <<"C_O_XYLENE", "C_M_P_XYLENE">>),
         entry(gt(a["C_2_3_DIMETHYLPENTANE"], a["C_2_METHYLHEXANE"])
                 /\ above_3x_mdl(a["C_2_3_DIMETHYLPENTANE"], m,
                                 "C_2_3_DIMETHYLPENTANE"),
               "23dimethylpentane_gt_2methylhexane",
               <<"C_2_METHYLHEXANE", "C_2_3_DIMETHYLPENTANE">>),
         entry(gt(a["C_2_4_DIMETHYLPENTANE"], a["C_METHYLCYCLOPENTANE"])
                 /\ above_3x_mdl(a["C_2_4_DIMETHYLPENTANE"], m,
                                 "C_2_4_DIMETHYLPENTANE"),
               "24dimethylpentane_gt_methylcyclopentane",
               <<"C_METHYLCYCLOPENTANE", "C_2_4_DIMETHYLPENTANE">>),
         entry(gt(a["C_ISO_BUTANE"], a["C_N_BUTANE"])
                 /\ above_3x_mdl(a["C_ISO_BUTANE"], m, "C_ISO_BUTANE"),
               "isobutane_gt_nbutane", <<"C_ISO_BUTANE", "C_N_BUTANE">>),
         \* 3mp / 6 > 0.6 * 2mp / 6, that is 10 * 3mp > 6 * 2mp
         entry(gt_scaled(a["C_3_METHYLPENTANE"], 6, a["C_2_METHYLPENTANE"], 10)
                 /\ above_3x_mdl(a["C_3_METHYLPENTANE"], m, "C_3_METHYLPENTANE"),
               "3methylpentane_gt_2methylpentane",
               <<"C_3_METHYLPENTANE", "C_2_METHYLPENTANE">>),
         entry(gt_scaled(a["C_N_UNDECANE"], 11, a["C_N_DECANE"], 10)
                 /\ above_3x_mdl(a["C_N_UNDECANE"], m, "C_N_UNDECANE"),
               "nundecane_gt_ndecane", <<"C_N_UNDECANE", "C_N_DECANE">>),
         entry(~(gt(a["C_ISO_PENTANE"], a["C_N_PENTANE"])
                   /\ gt(a["C_N_PENTANE"], a["C_CYCLOPENTANE"]))
                 /\ above_3x_mdl(a["C_ISO_PENTANE"], m, "C_ISO_PENTANE")
                 /\ above_3x_mdl(a["C_N_PENTANE"], m, "C_N_PENTANE")
                 /\ above_3x_mdl(a["C_CYCLOPENTANE"], m, "C_CYCLOPENTANE"),
               "not_isopentane_gt_npentane_gt_cyclopentane",
               <<"C_ISO_PENTANE", "C_N_PENTANE", "C_CYCLOPENTANE">>),
         entry(row_sum(row, alkenes) > row_sum(row, alkanes),
               "alkenes_gt_alkanes", <<>>)>>

NumConditions == 12

\* The compounds cell of a flagged row.
compounds_cell(compounds) ==
    IF compounds # <<>>
    THEN [i \in DOMAIN compounds |-> aqs_to_name(compounds[i])]
    ELSE <<"alkanes", "alkenes">>

\* ambient_df.loc[cond] with the two columns added, for condition k.
subset(ambient_df, m, k) ==
    LET sel == SelectSeq(ambient_df, LAMBDA row : conditions(row, m)[k].cond)
    IN [i \in DOMAIN sel |->
          [date_time |-> sel[i].date_time,
           screen_reason |-> conditions(sel[i], m)[k].label,
           compounds |-> compounds_cell(conditions(sel[i], m)[k].compounds)]]

\* concat_flagged keeping, for each timestamp, only its first match.
RECURSIVE concat_flagged_dedup(_, _, _)
concat_flagged_dedup(ambient_df, m, k) ==
    IF k > NumConditions THEN <<>>
    ELSE LET rest == concat_flagged_dedup(ambient_df, m, k + 1)
             here == subset(ambient_df, m, k)
         IN here \o SelectSeq(rest, LAMBDA r :
                       \A i \in DOMAIN here : here[i].date_time # r.date_time)

\* pd.concat(flagged): the subsets of the conditions k.., in order.
RECURSIVE concat_flagged(_, _, _)
concat_flagged(ambient_df, m, k) ==
    IF k > NumConditions THEN <<>>
    ELSE subset(ambient_df, m, k) \o concat_flagged(ambient_df, m, k + 1)

\* The conditions list is built before any row is selected: a code absent
\* from mdl_series makes m[code] raise KeyError.
check_ratios(d, mdl) ==
    LET mdl_series == to_aqs_indexed_series(mdl)
        ambient_df == sort_index(FilterType(d, "s"))
    IN IF ~(mdl_lookups \subseteq DOMAIN mdl_series)
       THEN [err |-> "KeyError", rows |-> <<>>]
       ELSE [err |-> "ok", rows |-> concat_flagged(ambient_df, mdl_series, 1)]

\* if exclude_compounds is None: exclude_compounds = {"TNMTC", "TNMHC"}
default_exclusion(exclude) ==
    IF exclude.is_none THEN {"TNMTC", "TNMHC"} ELSE exclude.names

\* name_to_aqs of every known name; an unknown name is logged and skipped.
exclude_codes(exclude) ==
    {name_to_aqs(name) : name \in default_exclusion(exclude) \cap CompoundName}

\* ambient_df.melt(value_vars=compound_cols, ignore_index=False): one row per
\* (column, sample), column after column, the samples in table order.
RECURSIVE melt(_, _)
melt(ambient_df, value_vars) ==
    IF value_vars = <<>> THEN <<>>
    ELSE [i \in DOMAIN ambient_df |->
            [date_time |-> ambient_df[i].date_time,
             compound |-> Head(value_vars),
             value |-> ambient_df[i].vals[Head(value_vars)]]]
         \o melt(ambient_df, Tail(value_vars))

\* overrange_mask with the comparison written >= (the bound flagged).
overrange_mask_ge(r, bound, excluded) ==
    /\ notna(r.value) /\ r.value >= bound
    /\ r.compound \notin excluded

\* (long_df["value"] > upper_cal_point) & ~long_df["compound"].isin(...)
overrange_mask(r, bound, excluded) ==
    /\ gt(r.value, bound)
    /\ r.compound \notin excluded

check_overrange_values(d, bound, exclude) ==
    LET ambient_df == FilterType(d, "s")
        long_df == melt(ambient_df, compound_cols)
        kept == SelectSeq(long_df, LAMBDA r :
                    overrange_mask(r, bound, exclude_codes(exclude)))
    IN [err |-> "ok",
        rows |-> [i \in DOMAIN kept |->
                    [date_time |-> kept[i].date_time,
                     compound |-> kept[i].compound,
                     value |-> kept[i].value,
                     compound_name |-> aqs_to_name(kept[i].compound)]]]

\* s.index.date: the calendar date of a timestamp counted in hours.
date(t) == t \div HoursPerDay

\* idxmax taking the last occurrence of the maximum.
idxmax_last(group) ==
    LET i == CHOOSE i \in DOMAIN group :
                /\ \A j \in DOMAIN group : group[j].value <= group[i].value
                /\ \A j \in DOMAIN group :
                      group[j].value = group[i].value => j <= i
    IN group[i].date_time

\* Series.idxmax(): the label of the first occurrence of the maximum.
idxmax(group) ==
    LET i == CHOOSE i \in DOMAIN group :
                /\ \A j \in DOMAIN group : group[j].value <= group[i].value
                /\ \A j \in DOMAIN group :
                      group[j].value = group[i].value => i <= j
    IN group[i].date_time

\* s.groupby(s.index.date).idxmax(): one label per date, the dates ascending.
groupby_date_idxmax(ser) ==
    LET dates == SetToSortedSeq({date(ser[i].date_time) : i \in DOMAIN ser})
    IN [k \in DOMAIN dates |->
          idxmax(SelectSeq(ser, LAMBDA r : date(r.date_time) = dates[k]))]

\* s.loc[labels]: the entries of s at the labels, in the labels' order.
RECURSIVE loc(_, _)
loc(ser, labels) ==
    IF labels = <<>> THEN <<>>
    ELSE SelectSeq(ser, LAMBDA r : r.date_time = Head(labels))
            \o loc(ser, Tail(labels))

check_daily_max_tnmhc(d) ==
    LET ambient_df == sort_index(FilterType(d, "s"))
        ser == [i \in DOMAIN ambient_df |->
                  [date_time |-> ambient_df[i].date_time,
                   value |-> ambient_df[i].vals["C_TNMHC"]]]
        timestamps_of_daily_max == groupby_date_idxmax(ser)
    IN [err |-> "ok", rows |-> loc(ser, timestamps_of_daily_max)]

----------------------------------------------------------------------------
(* The ambient screens' inputs *)

\* A row of values: Benzene b, Ethylene e, TNMHC t; Toluene 7, TNMTC 100 and
\* every other compound 1.
AmbientVals(b, e, t) ==
    [code \in CompoundAQSCode |->
        CASE code = "C_BENZENE" -> b
          [] code = "C_ETHYLENE" -> e
          [] code = "C_TNMHC" -> t
          [] code = "C_TNMTC" -> 100
          [] code = "C_TOLUENE" -> 7
          [] OTHER -> 1]

\* Ambient tables of NumRows rows: timestamps `orders`, sample types ambient
\* or blank, values from `rowvals`.
AmbientTables(orders, rowvals) ==
    {[i \in 1..NumRows |-> [date_time |-> o[i], sample_type |-> st[i],
                            filename |-> i, vals |-> v[i]]] :
        o \in orders, st \in [1..NumRows -> {"s", "b"}],
        v \in [1..NumRows -> rowvals]}

\* Timestamps in hours, NumRows of the NumRows + 1 hours that start two
\* hours before a midnight, oldest first or newest first.
FirstHour == HoursPerDay - 2

HourOrders ==
    LET hours == FirstHour..(FirstHour + NumRows)
        asc(S) == SetToSortedSeq(S)
    IN UNION {{asc(hours \ {h}),
               [i \in 1..NumRows |-> asc(hours \ {h})[NumRows + 1 - i]]} :
                 h \in hours}

\* MDL mappings with an entry for every code (1; Toluene 3; the totals 100),
\* but Benzene absent, NaN, 1 or 3 and keyed by code or by name, and
\* Ethylene 1 or 7.
RatioMdlMappings ==
    LET others == {<<c, CASE c = "C_TOLUENE" -> 3
                          [] c \in TOTAL_CODES -> 100
                          [] OTHER -> 1>> :
                      c \in CompoundAQSCode \ {"C_BENZENE", "C_ETHYLENE"}}
    IN {Mapping(others \cup b \cup {<<"C_ETHYLENE", e>>}) :
           b \in {{}, {<<"C_BENZENE", NaN>>}, {<<"C_BENZENE", 1>>},
                  {<<"C_BENZENE", 3>>}, {<<"Benzene", 3>>}},
           e \in {1, 7}}

\* The bounds handed to check_overrange_values: 6, and the default 30.
UpperCalPoints == {6, 30}

\* The exclusion sets: the default, none, a compound, a compound and a name
\* that is no compound's.
Exclusions ==
    {None, Names({}), Names({"Benzene"}), Names({"Benzene", "NotACompound"})}

InitScreening ==
    /\ pc = "input"
    /\ screen \in {"ratios", "overrange", "daily_max"}
    /\ \/ /\ screen = "ratios"
          /\ data \in AmbientTables(Orders,
                        {AmbientVals(b, e, 100) : b \in {NaN, 6, 9, 12},
                                                  e \in {1, 20}})
          /\ mdls \in RatioMdlMappings
          /\ upper_cal_point = 0
          /\ exclude_compounds = None
       \/ /\ screen = "overrange"
          /\ data \in AmbientTables(Orders,
                        {AmbientVals(b, e, 100) : b \in {NaN, 6, 12},
                                                  e \in {6, 20}})
          /\ mdls = <<>>
          /\ upper_cal_point \in UpperCalPoints
          /\ exclude_compounds \in Exclusions
       \/ /\ screen = "daily_max"
          /\ data \in AmbientTables(HourOrders,
                        {AmbientVals(6, 1, t) : t \in {100, 200}})
          /\ mdls = <<>>
          /\ upper_cal_point = 0
          /\ exclude_compounds = None
    /\ canister_conc = <<>>
    /\ blend_ratio = 1
    /\ qc_type = "none"
    /\ long = NoTable
    /\ wide = NoTable
    /\ ratios_check = NoTable
    /\ exceedances = NoTable
    /\ daily_max = NoTable
    /\ InitMdvrIdle
    /\ InitLookupIdle
    /\ InitPipelineIdle

CallCheckRatios ==
    /\ screen = "ratios" /\ pc = "input"
    /\ ratios_check' = check_ratios(data, mdls)
    /\ pc' = "returned"
    /\ UNCHANGED <<screen, upper_cal_point, exclude_compounds, exceedances,
                   daily_max>>
    /\ UNCHANGED screenVars
    /\ UNCHANGED mdvrVars
    /\ UNCHANGED lookupVars
    /\ UNCHANGED pipelineVars

CallCheckOverrangeValues ==
    /\ screen = "overrange" /\ pc = "input"
    /\ exceedances' = check_overrange_values(data, upper_cal_point,
                                             exclude_compounds)
    /\ pc' = "returned"
    /\ UNCHANGED <<screen, upper_cal_point, exclude_compounds, ratios_check,
                   daily_max>>
    /\ UNCHANGED screenVars
    /\ UNCHANGED mdvrVars
    /\ UNCHANGED lookupVars
    /\ UNCHANGED pipelineVars

CallCheckDailyMaxTnmhc ==
    /\ screen = "daily_max" /\ pc = "input"
    /\ daily_max' = check_daily_max_tnmhc(data)
    /\ pc' = "returned"
    /\ UNCHANGED <<screen, upper_cal_point, exclude_compounds, ratios_check,
                   exceedances>>
    /\ UNCHANGED screenVars
    /\ UNCHANGED mdvrVars
    /\ UNCHANGED lookupVars
    /\ UNCHANGED pipelineVars

NextScreening ==
    \/ CallCheckRatios
    \/ CallCheckOverrangeValues
    \/ CallCheckDailyMaxTnmhc

SpecScreening == InitScreening /\ [][NextScreening]_vars

----------------------------------------------------------------------------
(* Vocabulary of the ambient screens' properties *)

\* The input rows of ambient samples.
AmbientRows == {i \in DOMAIN data : data[i].sample_type = "s"}

RatiosReturned ==
    screen = "ratios" /\ pc = "returned" /\ ratios_check.err = "ok"

\* The rows check_ratios emitted for timestamp t.
EmittedAt(t) ==
    {j \in DOMAIN ratios_check.rows : ratios_check.rows[j].date_time = t}

EmittedUnder(t, label) ==
    \E j \in EmittedAt(t) : ratios_check.rows[j].screen_reason = label

\* Code c is present in input row r and strictly above 3 times its MDL.
Above3xMdl(r, c) ==
    /\ Defined(mdls, c)
    /\ r.vals[c] # NaN
    /\ r.vals[c] > 3 * ValueOf(mdls, c)

\* C15: check_ratios emits a row labelled "benzene_gt_toluene" for an ambient
\* sample if and only if benzene/6 > toluene/7 (strict) and benzene is
\* strictly above 3 times the benzene MDL; without the latter the row is not
\* emitted under that label however large the ratio.
C15_BenzeneGtTolueneIff ==
    RatiosReturned =>
        \A i \in AmbientRows :
            EmittedUnder(data[i].date_time, "benzene_gt_toluene")
                <=> /\ data[i].vals["C_BENZENE"] # NaN
                    /\ data[i].vals["C_TOLUENE"] # NaN
                    /\ 7 * data[i].vals["C_BENZENE"] > 6 * data[i].vals["C_TOLUENE"]
                    /\ Above3xMdl(data[i], "C_BENZENE")

\* An ambient row emitted under the label next to an ambient row with a
\* ratio as large whose benzene equals 3 times the MDL, which is not.
C15_Witness ==
    /\ RatiosReturned
    /\ \E i, j \in AmbientRows :
          /\ EmittedUnder(data[i].date_time, "benzene_gt_toluene")
          /\ 7 * data[j].vals["C_BENZENE"] > 6 * data[j].vals["C_TOLUENE"]
          /\ data[j].vals["C_BENZENE"] = 3 * ValueOf(mdls, "C_BENZENE")
          /\ ~EmittedUnder(data[j].date_time, "benzene_gt_toluene")

\* C16: every condition of check_ratios is gated by the 3x-MDL rule: an
\* ambient row in which no compound is strictly above 3 times its MDL has no
\* emitted row at all.
C16_EveryConditionGated ==
    RatiosReturned =>
        \A i \in AmbientRows :
            (\A c \in SeqToSet(compound_cols) : ~Above3xMdl(data[i], c))
                => EmittedAt(data[i].date_time) = {}

\* The conditions of the battery that input row r satisfies.
Satisfied(r) ==
    {k \in 1..NumConditions :
        conditions(r, to_aqs_indexed_series(mdls))[k].cond}

\* C17: in check_ratios an ambient row that satisfies k conditions yields
\* exactly k output rows, all at the row's timestamp and each under a
\* different label; a row that satisfies none yields none, and no output row
\* stands at another timestamp.
C17_OneRowPerMatch ==
    RatiosReturned =>
        /\ \A i \in AmbientRows :
              /\ Cardinality(EmittedAt(data[i].date_time))
                    = Cardinality(Satisfied(data[i]))
              /\ \A j, k \in EmittedAt(data[i].date_time) :
                    ratios_check.rows[j].screen_reason
                        = ratios_check.rows[k].screen_reason => j = k
        /\ \A j \in DOMAIN ratios_check.rows :
              \E i \in AmbientRows :
                  data[i].date_time = ratios_check.rows[j].date_time

\* An ambient row that satisfies three conditions or more next to an ambient
\* row that satisfies none.
C17_Witness ==
    /\ RatiosReturned
    /\ \E i, j \in AmbientRows :
          /\ Cardinality(EmittedAt(data[i].date_time)) >= 3
          /\ Satisfied(data[j]) = {}

\* C18: when the MDL mapping has no entry for the primary compound of a
\* rule, check_ratios does not raise: it returns the table of the remaining
\* rules.
C18_MissingMdlSkipped ==
    (screen = "ratios" /\ pc = "returned" /\ KeysOf(mdls, "C_BENZENE") = {})
        => ratios_check.err = "ok"

OverrangeReturned ==
    screen = "overrange" /\ pc = "returned" /\ exceedances.err = "ok"

\* The rows check_overrange_values returned for timestamp t and compound c.
ReturnedPairs(t, c) ==
    {j \in DOMAIN exceedances.rows :
        /\ exceedances.rows[j].date_time = t
        /\ exceedances.rows[j].compound = c}

\* The codes the call's exclusion set names: the two totals by default.
NamedCodes ==
    IF exclude_compounds = None THEN {"C_TNMHC", "C_TNMTC"}
    ELSE {c \in CompoundAQSCode : aqs_to_name(c) \in exclude_compounds.names}

\* C19: check_overrange_values returns a (timestamp, compound) pair if and
\* only if the row is an ambient sample, the compound is not in the
\* exclusion set and the value is present and strictly above the upper
\* calibration bound (a value equal to it is not returned); by default the
\* exclusion set is TNMHC and TNMTC, otherwise exactly the named compounds.
C19_OverrangeIff ==
    OverrangeReturned =>
        /\ \A i \in DOMAIN data : \A c \in CompoundAQSCode :
              /\ Cardinality(ReturnedPairs(data[i].date_time, c)) <= 1
              /\ ReturnedPairs(data[i].date_time, c) # {}
                    <=> /\ data[i].sample_type = "s"
                        /\ c \notin NamedCodes
                        /\ data[i].vals[c] # NaN
                        /\ data[i].vals[c] > upper_cal_point
        /\ \A j \in DOMAIN exceedances.rows :
              \E i \in DOMAIN data :
                  /\ data[i].date_time = exceedances.rows[j].date_time
                  /\ data[i].vals[exceedances.rows[j].compound]
                        = exceedances.rows[j].value

\* A call with a caller-supplied exclusion set naming Benzene, on an ambient
\* row with Benzene above the bound (not returned), Ethylene above it
\* (returned) and TNMHC above it (returned, the default no longer applying),
\* next to an ambient row whose Benzene equals the bound.
C19_Witness ==
    /\ OverrangeReturned
    /\ exclude_compounds # None
    /\ \E i, k \in AmbientRows :
          /\ data[i].vals["C_BENZENE"] > upper_cal_point
          /\ ReturnedPairs(data[i].date_time, "C_BENZENE") = {}
          /\ ReturnedPairs(data[i].date_time, "C_ETHYLENE") # {}
          /\ ReturnedPairs(data[i].date_time, "C_TNMHC") # {}
          /\ data[k].vals["C_ETHYLENE"] = upper_cal_point
          /\ ReturnedPairs(data[k].date_time, "C_ETHYLENE") = {}

DailyMaxReturned ==
    screen = "daily_max" /\ pc = "returned" /\ daily_max.err = "ok"

\* The ambient rows of calendar date dt.
AmbientOn(dt) == {i \in AmbientRows : date(data[i].date_time) = dt}

AmbientDates == {date(data[i].date_time) : i \in AmbientRows}

\* C20: check_daily_max_tnmhc returns exactly one entry per calendar date
\* that has ambient rows; its value is the date's maximum TNMHC over the
\* ambient rows and its index is the earliest timestamp of the date at which
\* that maximum occurs.
C20_OneMaxPerDate ==
    DailyMaxReturned =>
        /\ Len(daily_max.rows) = Cardinality(AmbientDates)
        /\ \A dt \in AmbientDates :
              \E j \in DOMAIN daily_max.rows :
                  LET best == MaxOf({data[i].vals["C_TNMHC"] : i \in AmbientOn(dt)})
                  IN /\ daily_max.rows[j].value = best
                     /\ daily_max.rows[j].date_time
                           = MinOf({data[i].date_time : i \in
                                      {i \in AmbientOn(dt) :
                                          data[i].vals["C_TNMHC"] = best}})

\* Two ambient rows of one date with the same TNMHC value: one entry, at the
\* earlier timestamp.
C20_Witness ==
    /\ DailyMaxReturned
    /\ Len(daily_max.rows) = 1
    /\ \E i, j \in AmbientRows :
          /\ i # j
          /\ date(data[i].date_time) = date(data[j].date_time)
          /\ data[i].vals["C_TNMHC"] = data[j].vals["C_TNMHC"]
          /\ data[i].date_time < data[j].date_time
          /\ daily_max.rows[1].date_time = data[i].date_time

----------------------------------------------------------------------------
(* database/enums and qc/utils: the lookups, called on their own *)

\* The keys of the threshold mappings handed to to_aqs_indexed_series: two
\* names, two codes and a string that names no compound.
LookupKeys == {"Benzene", "Toluene", "C_ETHANE", "C_TNMHC", "NotACompound"}

\* The mappings over those keys, values NaN or a number.
KeyMappings == UNION {[ks -> {NaN, 13}] : ks \in SUBSET LookupKeys}

\* The arguments of name_to_aqs: every member value, and a string no member
\* has.
NameArgs == CompoundName \cup {"NotACompound"}

\* The arguments of aqs_to_name: every member value, the unidentified-peak
\* codes and an int no member has.
CodeArgs == IntKeys

InitLookup ==
    /\ screen = "lookup"
    /\ pc = "input"
    /\ data = <<>>
    /\ mdls \in KeyMappings
    /\ canister_conc = <<>>
    /\ blend_ratio = 1
    /\ qc_type = "c"
    /\ long = NoTable
    /\ wide = NoTable
    /\ lookup_call = NoCall
    /\ lookup_result = NoTable
    /\ InitMdvrIdle
    /\ InitScreeningIdle
    /\ InitPipelineIdle

LookupFrame ==
    /\ UNCHANGED <<screen, data, mdls, canister_conc, blend_ratio, qc_type,
                   long, wide>>
    /\ UNCHANGED mdvrVars
    /\ UNCHANGED screeningVars
    /\ UNCHANGED pipelineVars

CallToAqsIndexedSeries ==
    /\ screen = "lookup"
    /\ pc = "input"
    /\ lookup_call' = [op |-> "to_aqs_indexed_series", arg |-> mdls]
    /\ lookup_result' = call_to_aqs_indexed_series(mdls)
    /\ pc' = "done"
    /\ LookupFrame

CallNameToAqs ==
    /\ screen = "lookup"
    /\ pc = "input"
    /\ \E name \in NameArgs :
          /\ lookup_call' = [op |-> "name_to_aqs", arg |-> name]
          /\ lookup_result' = call_name_to_aqs(name)
    /\ pc' = "done"
    /\ LookupFrame

CallAqsToName ==
    /\ screen = "lookup"
    /\ pc = "input"
    /\ \E code \in CodeArgs :
          /\ lookup_call' = [op |-> "aqs_to_name", arg |-> code]
          /\ lookup_result' = call_aqs_to_name(code)
    /\ pc' = "done"
    /\ LookupFrame

CallGetCodesByCategory ==
    /\ screen = "lookup"
    /\ pc = "input"
    /\ \E category \in VOCCategory :
          /\ lookup_call' = [op |-> "get_codes_by_category", arg |-> category]
          /\ lookup_result' =
                [err |-> "ok", codes |-> get_codes_by_category(category)]
    /\ pc' = "done"
    /\ LookupFrame

NextLookup ==
    \/ CallToAqsIndexedSeries
    \/ CallNameToAqs
    \/ CallAqsToName
    \/ CallGetCodesByCategory

SpecLookup == InitLookup /\ [][NextLookup]_vars

----------------------------------------------------------------------------
(* Claims about the lookups *)

\* The call of the state.
Called(op) == lookup_call.op = op

\* The pairs (member name, code value, name value) of the vocabulary.
Vocabulary == {<<CompoundTable[i][1], CompoundTable[i][2]>> : i \in DOMAIN CompoundTable}

\* The code a key of a mapping stands for: the key itself when it is a code,
\* the code of the compound it names otherwise.
KeyCode(k) ==
    IF k \in CompoundAQSCode THEN k
    ELSE (CHOOSE pair \in Vocabulary : pair[2] = k)[1]

\* The string keys of a mapping that name no compound.
UnknownKeys(m) == {k \in DOMAIN m : k \notin CompoundAQSCode /\ k \notin CompoundName}

\* C21: to_aqs_indexed_series raises ValueError exactly when a string key
\* of the mapping is no compound name; otherwise it returns a series keyed
\* only by codes, holding for each code the value of its input entry, the
\* entries whose value is NaN left out.
C21_KeyedByCodesNaNDropped ==
    Called("to_aqs_indexed_series") =>
        LET m == lookup_call.arg
        IN IF UnknownKeys(m) # {}
           THEN lookup_result = [err |-> "ValueError"]
           ELSE /\ lookup_result.err = "ok"
                /\ DOMAIN lookup_result.series \subseteq CompoundAQSCode
                /\ DOMAIN lookup_result.series
                      = {KeyCode(k) : k \in {k \in DOMAIN m : m[k] # NaN}}
                /\ \A k \in DOMAIN m :
                      m[k] # NaN => lookup_result.series[KeyCode(k)] = m[k]

\* A mapping keyed by a name and by a code, one value NaN: the series holds
\* the other entry under its code, and nothing else.
C21_Witness ==
    /\ Called("to_aqs_indexed_series")
    /\ DOMAIN lookup_call.arg = {"Benzene", "C_ETHANE"}
    /\ lookup_call.arg["C_ETHANE"] = NaN
    /\ lookup_result.err = "ok"
    /\ DOMAIN lookup_result.series = {"C_BENZENE"}
    /\ lookup_result.series["C_BENZENE"] = 13

----------------------------------------------------------------------------
(* core/orchestrator: PipelineOrchestrator *)

\* The number of registered steps.
NumSteps == 2

\* The registered step names, in registration order, and a name that is
\* never registered.
StepNames == 1..NumSteps

Unregistered == 0

AllNames == StepNames \cup {Unregistered}

\* graph[name] = step.dependencies(), for every registered step.
_build_dependency_graph(registered) == registered

\* The keys of a dict, in insertion order.
keys(graph) == SetToSortedSeq(DOMAIN graph)

\* in_degree after lines 54-62: for every name, the number of times it is
\* listed as a dependency.
in_degree_of(graph) ==
    LET listed == UNION {{<<node, i>> : i \in DOMAIN graph[node]} : node \in DOMAIN graph}
    IN [n \in AllNames |->
            Cardinality({e \in listed : graph[e[1]][e[2]] = n})]

\* The inner loop of lines 73-76 over the neighbors of the popped node.
RECURSIVE reduce_neighbors(_, _, _)
reduce_neighbors(neighbors, queue, in_degree) ==
    IF neighbors = <<>> THEN [queue |-> queue, in_degree |-> in_degree]
    ELSE LET neighbor == Head(neighbors)
             reduced == [in_degree EXCEPT ![neighbor] = @ - 1]
         IN reduce_neighbors(Tail(neighbors),
                             IF reduced[neighbor] = 0
                                 THEN Append(queue, neighbor) ELSE queue,
                             reduced)

\* The while loop of lines 68-76.
RECURSIVE drain(_, _, _, _)
drain(graph, queue, result, in_degree) ==
    IF queue = <<>> THEN result
    ELSE LET node == Head(queue)
             neighbors == IF node \in DOMAIN graph THEN graph[node] ELSE <<>>
             r == reduce_neighbors(neighbors, Tail(queue), in_degree)
         IN drain(graph, r.queue, Append(result, node), r.in_degree)

_topological_sort(registered) ==
    LET graph == _build_dependency_graph(registered)
        in_degree == in_degree_of(graph)
        queue == SelectSeq(keys(graph), LAMBDA node : in_degree[node] = 0)
        result == drain(graph, queue, <<>>, in_degree)
    IN IF Len(result) # Cardinality(DOMAIN graph)
       THEN [err |-> "ValueError", order |-> <<>>]
       ELSE [err |-> "ok", order |-> result]

\* required_steps after add_with_deps has been called on every name of
\* `names`: the names and everything they transitively depend on.
RECURSIVE add_with_deps(_, _)
add_with_deps(registered, names) ==
    LET deps == UNION {SeqToSet(registered[n]) : n \in names \cap DOMAIN registered}
    IN IF deps \subseteq names THEN names
       ELSE add_with_deps(registered, names \cup deps)

_get_steps_with_dependencies(registered, step_names) ==
    LET required_steps == add_with_deps(registered, SeqToSet(step_names))
        all_sorted == _topological_sort(registered)
    IN IF all_sorted.err # "ok" THEN all_sorted
       ELSE [err |-> "ok",
             order |-> SelectSeq(all_sorted.order,
                                 LAMBDA name : name \in required_steps)]

\* _dependencies_met answering True for every step.
_dependencies_met_always(registered, step_name, completed) == TRUE

_dependencies_met(registered, step_name, completed) ==
    \A i \in DOMAIN registered[step_name] :
        registered[step_name][i] \in completed

\* The step_names argument: None, or a list of names.
NoStepNames == [is_none |-> TRUE, list |-> <<>>]

ListOf(names) == [is_none |-> FALSE, list |-> names]

\* The for loop of run (lines 102-132) over the rest of the order. `failing`
\* holds the steps whose run() returns an unsuccessful result; the log gets
\* one entry per step.run() invocation, with the completed steps at that
\* moment.
RECURSIVE execute_steps(_, _, _, _, _, _)
execute_steps(registered, order, force, failing, completed, log) ==
    IF order = <<>>
    THEN [completed |-> completed, executed |-> log, raised |-> [err |-> "none"]]
    ELSE LET step_name == Head(order)
         IN IF step_name \notin DOMAIN registered
            THEN execute_steps(registered, Tail(order), force, failing,
                               completed, log)
            ELSE IF ~force /\ step_name \in completed
            THEN execute_steps(registered, Tail(order), force, failing,
                               completed, log)
            ELSE IF ~_dependencies_met(registered, step_name, completed)
            THEN [completed |-> completed, executed |-> log,
                  raised |-> [err |-> "RuntimeError", step |-> step_name,
                              why |-> "dependencies not met"]]
            ELSE LET success == step_name \notin failing
                     entry == [step |-> step_name, success |-> success,
                               completed |-> completed]
                 IN IF success
                    THEN execute_steps(registered, Tail(order), force,
                                       failing, completed \cup {step_name},
                                       Append(log, entry))
                    ELSE [completed |-> completed,
                          executed |-> Append(log, entry),
                          raised |-> [err |-> "RuntimeError",
                                      step |-> step_name,
                                      why |-> "failed"]]

\* run(step_names, force): the order, then the loop.
run(registered, step_names, force, failing, completed) ==
    LET sorted == IF step_names.is_none THEN _topological_sort(registered)
                  ELSE _get_steps_with_dependencies(registered, step_names.list)
    IN IF sorted.err # "ok"
       THEN [completed |-> completed, order |-> <<>>, executed |-> <<>>,
             raised |-> [err |-> "ValueError"]]
       ELSE LET r == execute_steps(registered, sorted.order, force, failing,
                                   completed, <<>>)
            IN [completed |-> r.completed, order |-> sorted.order,
                executed |-> r.executed, raised |-> r.raised]

\* reset(step_names)
reset(step_names, completed) ==
    IF step_names.is_none THEN {}
    ELSE completed \ SeqToSet(step_names.list)

\* The dependencies() lists: every list of distinct names, in ascending
\* order.
DependencyLists == {SetToSortedSeq(S) : S \in SUBSET AllNames}

\* The step_names arguments: None, or a list of one name.
StepNameArgs == {NoStepNames} \cup {ListOf(<<n>>) : n \in AllNames}

\* The outcomes of the steps of one run: all succeed, or one step fails.
Failing == {{}} \cup {{n} : n \in StepNames}

\* NumSteps steps registered, no state file on disk.
InitPipeline ==
    /\ screen = "pipeline"
    /\ pc = "registered"
    /\ InitScreenIdle
    /\ InitMdvrIdle
    /\ InitScreeningIdle
    /\ InitLookupIdle
    /\ steps \in [StepNames -> DependencyLists]
    /\ completed_steps = {}
    /\ last_call = NoCall
    /\ completed_before = {}
    /\ steps_to_run = <<>>
    /\ executed = <<>>
    /\ raised = [err |-> "none"]

PipelineFrame ==
    /\ UNCHANGED <<screen, steps>>
    /\ UNCHANGED screenVars
    /\ UNCHANGED mdvrVars
    /\ UNCHANGED screeningVars
    /\ UNCHANGED lookupVars

Run ==
    /\ screen = "pipeline"
    /\ pc = "registered"
    /\ pc' = "called"
    /\ \E step_names \in StepNameArgs, force \in BOOLEAN, failing \in Failing :
          LET r == run(steps, step_names, force, failing, completed_steps)
          IN /\ last_call' = [op |-> "run", step_names |-> step_names,
                              force |-> force, failing |-> failing]
             /\ completed_before' = completed_steps
             /\ completed_steps' = r.completed
             /\ steps_to_run' = r.order
             /\ executed' = r.executed
             /\ raised' = r.raised
    /\ PipelineFrame

Reset ==
    /\ screen = "pipeline"
    /\ pc = "registered"
    /\ pc' = "called"
    /\ \E step_names \in StepNameArgs :
          /\ last_call' = [op |-> "reset", step_names |-> step_names]
          /\ completed_before' = completed_steps
          /\ completed_steps' = reset(step_names, completed_steps)
          /\ steps_to_run' = <<>>
          /\ executed' = <<>>
          /\ raised' = [err |-> "none"]
    /\ PipelineFrame

TopologicalSort ==
    /\ screen = "pipeline"
    /\ pc = "registered"
    /\ pc' = "called"
    /\ LET sorted == _topological_sort(steps)
       IN /\ last_call' = [op |-> "_topological_sort"]
          /\ steps_to_run' = sorted.order
          /\ raised' = IF sorted.err = "ok" THEN [err |-> "none"]
                       ELSE [err |-> sorted.err]
    /\ completed_before' = completed_steps
    /\ executed' = <<>>
    /\ UNCHANGED completed_steps
    /\ PipelineFrame

\* The call has returned or raised; the caller goes on with the orchestrator
\* as the call left it.
Return ==
    /\ screen = "pipeline"
    /\ pc = "called"
    /\ pc' = "registered"
    /\ last_call' = NoCall
    /\ completed_before' = {}
    /\ steps_to_run' = <<>>
    /\ executed' = <<>>
    /\ raised' = [err |-> "none"]
    /\ UNCHANGED completed_steps
    /\ PipelineFrame

NextPipeline ==
    \/ Run
    \/ Reset
    \/ TopologicalSort
    \/ Return

SpecPipeline == InitPipeline /\ [][NextPipeline]_vars

----------------------------------------------------------------------------
(* Claims about the orchestrator *)

CalledRun == last_call.op = "run"

\* The names step n lists as its dependencies.
DepsOf(n) == SeqToSet(steps[n])

\* The names reachable from the names of S along dependencies.
RECURSIVE DependencyClosure(_)
DependencyClosure(S) ==
    LET T == S \cup UNION {DepsOf(n) : n \in S \cap StepNames}
    IN IF T = S THEN S ELSE DependencyClosure(T)

\* Some registered step depends, directly or transitively, on itself.
HasCycle == \E n \in StepNames : \E d \in DepsOf(n) : n \in DependencyClosure({d})

\* Every dependency named is a registered step.
AllRegistered == \A n \in StepNames : DepsOf(n) \subseteq StepNames

\* The steps whose run() the call invoked, in order.
Invoked == {executed[i].step : i \in DOMAIN executed}

\* C26: run() with no step_names, on an acyclic graph over registered steps
\* and with nothing completed yet, invokes each step only after all the steps
\* it depends on and, when every step succeeds, ends without raising and
\* with every registered step in completed_steps.
C26_RunAllInDependencyOrder ==
    (/\ CalledRun /\ last_call.step_names.is_none
     /\ ~HasCycle /\ AllRegistered /\ completed_before = {}) =>
        /\ \A i \in DOMAIN executed :
              DepsOf(executed[i].step)
                  \subseteq {executed[j].step : j \in 1..(i - 1)}
        /\ last_call.failing = {} =>
              /\ raised.err = "none"
              /\ completed_steps = StepNames

\* C27: in every run(), a step's run() is invoked only when each of its
\* dependencies is in completed_steps at that moment; a run() that raises
\* "dependencies not met" for a step has not invoked that step, and a run()
\* that does not raise has invoked every registered step of its order that
\* it did not skip as already completed.
C27_InvokedOnlyWithDependenciesMet ==
    CalledRun =>
        /\ \A i \in DOMAIN executed :
              DepsOf(executed[i].step) \subseteq executed[i].completed
        /\ (raised.err = "RuntimeError" /\ raised.why = "dependencies not met") =>
              /\ ~(DepsOf(raised.step) \subseteq completed_steps)
              /\ raised.step \notin Invoked
        /\ raised.err = "none" =>
              \A n \in SeqToSet(steps_to_run) \cap StepNames :
                  \/ n \in Invoked
                  \/ ~last_call.force /\ n \in completed_before

\* A run that reached a step one of whose dependencies is not completed:
\* it raised RuntimeError and did not invoke the step.
C27_Witness ==
    /\ CalledRun
    /\ raised.err = "RuntimeError" /\ raised.why = "dependencies not met"
    /\ \E d \in DepsOf(raised.step) : d \notin completed_steps
    /\ raised.step \notin Invoked

\* C28: run() records a step only after its run() returned a successful
\* result; an unsuccessful result makes run() raise RuntimeError with the
\* failed step not in completed_steps, nothing invoked after it and the
\* steps completed before it still recorded; without force no step that was
\* already completed is invoked.
C28_RecordedOnlyAfterSuccess ==
    CalledRun =>
        /\ \A n \in completed_steps \ completed_before :
              \E i \in DOMAIN executed :
                  executed[i].step = n /\ executed[i].success
        /\ \A i \in DOMAIN executed :
              ~executed[i].success =>
                  /\ raised.err = "RuntimeError"
                  /\ executed[i].step \notin completed_steps
                  /\ i = Len(executed)
                  /\ \A j \in 1..(i - 1) : executed[j].step \in completed_steps
                  /\ completed_before \subseteq completed_steps \cup {executed[i].step}
        /\ ~last_call.force => Invoked \cap completed_before = {}

\* C29: _topological_sort raises ValueError if and only if the dependency
\* graph of the registered steps has a cycle, and on an acyclic graph (a
\* dependency that was never registered included) returns a list holding
\* each registered step exactly once.
C29_ValueErrorIffCycle ==
    last_call.op = "_topological_sort" =>
        /\ raised.err = "ValueError" <=> HasCycle
        /\ ~HasCycle =>
              /\ StepNames \subseteq SeqToSet(steps_to_run)
              /\ \A n \in StepNames :
                    Cardinality({i \in DOMAIN steps_to_run : steps_to_run[i] = n}) = 1

\* C30: every step in completed_steps has all of its dependencies in
\* completed_steps.
C30_CompletedImpliesDependenciesCompleted ==
    \A n \in completed_steps : DepsOf(n) \subseteq completed_steps

====
